---- MODULE Spec2Model ----
(***************************************************************************)
(* State-machine model of four components of the contour terminal         *)
(* emulator: crispy::LRUCache (src/crispy/LRUCache.h), the VT parser       *)
(* (src/terminal/Parser-impl.h), the DEC text locator                      *)
(* (src/terminal/DECTextLocator.{h,cpp}) and the image pool                *)
(* (src/terminal/Image.h).                                                 *)
(*                                                                         *)
(* Each component has its own specification (SpecLRU, SpecParser,          *)
(* SpecLocator, SpecImage); the variables of the other components stay at  *)
(* their initial values.                                                   *)
(***************************************************************************)
EXTENDS Integers, Sequences, FiniteSets, TLC

VARIABLES
    \* ---- crispy::LRUCache<int, int> ----
    capacity_,          \* LRUCache::capacity_
    items_,             \* LRUCache::items_ : slot index -> Item
    head_,              \* LRUCache::head_
    tail_,              \* LRUCache::tail_
    itemByKeyMapping_,  \* LRUCache::itemByKeyMapping_ : key -> slot index
    aborted,            \* the process died (failed assert / invalid iterator)
    oob,                \* an access to items_ outside its buffer has happened
    recency,            \* history: contained keys, most recently accessed first
    pureInserts,        \* history: the keys inserted so far, while nothing but
                        \*          insertions of distinct keys has happened
    pure,               \* history: TRUE while pureInserts describes the run
    fresh,              \* history: the largest key used so far
    nops,               \* history: the number of operations performed
    lastOp,             \* history: the last operation
    returned,           \* history: what the last operation returned, and how
                        \*          often it invoked the value constructor
    inserted,           \* history: the value last inserted for each key that
                        \*          has not been removed from the hash map since
    \* ---- terminal::parser::Parser ----
    state_,             \* Parser::state_
    maxCharCount,       \* Parser::maxCharCount, the column budget of the text scan
    fed,                \* history: the bytes passed to parseFragment() so far
    events,             \* history: the listener events emitted so far
    frag,               \* history: the last parseFragment() call
    faulted,            \* the process has ended inside parseFragment()
    calls,              \* history: the handle() calls of the last ParseFragmentByte
    \* ---- terminal::DECTextLocator ----
    _reportingMode,
    _filterRectangle,
    _units,
    _selectedLocatorEvents,
    _cellPosition,
    _pixelPosition,
    _currentlyPressedMouseButtons,
    _replyBackBufferIndex,
    _replyBuffer,
    pending,            \* history: the reports appended since the last fetch
    nreports,           \* history: the number of reports appended so far
    ncalls,             \* history: the number of calls made so far
    call,               \* history: the last call of the locator
    \* ---- terminal::ImagePool, Image, RasterizedImage, ImageFragment ----
    nextImageId_,       \* ImagePool::nextImageId_
    imageUse,           \* image id -> use count of the shared Image
    imageHandles,       \* image id -> shared_ptr<Image const> held by callers
    rasters,            \* raster slot -> the RasterizedImage created in it
    imageNameToImageCache_, \* ImagePool::imageNameToImageCache_, most recent first
    removed             \* image id -> number of onImageRemove_ invocations

lruVars == <<capacity_, items_, head_, tail_, itemByKeyMapping_, aborted, oob,
             recency, pureInserts, pure, fresh, nops, lastOp, returned,
            inserted>>

parserVars == <<state_, maxCharCount, fed, events, frag, faulted, calls>>

locatorVars == <<_reportingMode, _filterRectangle, _units, _selectedLocatorEvents, _cellPosition,
                 _pixelPosition, _currentlyPressedMouseButtons,
                 _replyBackBufferIndex, _replyBuffer, pending, nreports,
                 ncalls, call>>

imageVars == <<nextImageId_, imageUse, imageHandles, rasters, imageNameToImageCache_,
               removed>>

vars == <<lruVars, parserVars, locatorVars, imageVars>>

----------------------------------------------------------------------------
(* Bounds of the model.                                                    *)
MaxCapacity == 3
MaxOps == 6
MaxMixedOps == 5

(* size_t(-1), the list terminator.                                        *)
npos == -1

(* The largest index that a read outside the buffer of items_ yields, apart *)
(* from npos: such a read yields an arbitrary size_t.                       *)
MaxIndex == 5

(* Key{} and Value{} of a default-constructed Item.                        *)
DefaultKey == 0
DefaultValue == 0

Capacities == 1..MaxCapacity
Keys == 1..(MaxCapacity + 1)
(* The values stored: the default-constructed Value and one other.         *)
Values == {0, 1}

(* Item{}                                                                  *)
EmptyItem == [key |-> DefaultKey, value |-> DefaultValue, prev |-> npos, next |-> npos]

Slots == 0..(capacity_ - 1)

(* LRUCache::size()                                                        *)
size == Cardinality(DOMAIN itemByKeyMapping_)

(* LRUCache::contains() as a predicate on the hash map alone.              *)
Mapped(k) == k \in DOMAIN itemByKeyMapping_

SeqToSet(s) == {s[i] : i \in 1..Len(s)}

RECURSIVE Without(_, _)
Without(s, k) ==
    IF s = <<>> THEN <<>>
    ELSE IF Head(s) = k THEN Without(Tail(s), k)
    ELSE <<Head(s)>> \o Without(Tail(s), k)

RECURSIVE Restrict(_, _)
Restrict(s, S) ==
    IF s = <<>> THEN <<>>
    ELSE IF Head(s) \in S THEN <<Head(s)>> \o Restrict(Tail(s), S)
    ELSE Restrict(Tail(s), S)

(* The loop of LRUCache::keys(): the keys met from `pos` by following next, *)
(* cut after `fuel` steps (a cyclic chain never ends in the code).         *)
RECURSIVE Walk(_, _, _)
Walk(items, pos, fuel) ==
    IF pos = npos \/ fuel = 0 THEN <<>>
    ELSE <<items[pos].key>> \o Walk(items, items[pos].next, fuel - 1)

(* The slots met from `pos` by following next.                             *)
RECURSIVE Chain(_, _, _)
Chain(items, pos, fuel) ==
    IF pos = npos \/ fuel = 0 THEN <<>>
    ELSE <<pos>> \o Chain(items, items[pos].next, fuel - 1)

ChainOf(items, head) == Chain(items, head, capacity_ + 1)

(* LRUCache::keys(): a vector of size() keys filled along the chain; the   *)
(* entries the chain does not reach keep Key{}.                            *)
KeysOf(items, head, n) ==
    LET w == Walk(items, head, capacity_ + 1)
    IN  [i \in 1..n |-> IF i <= Len(w) THEN w[i] ELSE DefaultKey]

keys == KeysOf(items_, head_, size)

(* keys() writes past its result vector (or never returns) when the chain  *)
(* holds more than size() slots.                                           *)
KeysOverflows == Len(ChainOf(items_, head_)) > size

(* The contents as a key -> value mapping.                                 *)
Contents == [k \in DOMAIN itemByKeyMapping_ |-> items_[itemByKeyMapping_[k]].value]

(* What an operation hands back: a Value ("value"), nullptr, a bool, the   *)
(* exception std::out_of_range, nothing ("void", also when the process     *)
(* died inside the operation), or "never" when the call does not return.   *)
Ret(kind, val) == [kind |-> kind, val |-> val]

Outcome(ret, made) == [ret |-> ret, made |-> made]

(* The value try_get() points to, or nullptr.                              *)
TryGetResult(k) ==
    IF Mapped(k) THEN Ret("value", items_[itemByKeyMapping_[k]].value)
    ELSE Ret("nullptr", DefaultValue)

----------------------------------------------------------------------------
(* LRUCache(std::size_t _capacity)                                         *)
InitLRU ==
    /\ capacity_ \in Capacities
    /\ items_ = [s \in 0..(capacity_ - 1) |-> EmptyItem]
    /\ head_ = npos
    /\ tail_ = npos
    /\ itemByKeyMapping_ = <<>>
    /\ aborted = FALSE
    /\ oob = FALSE
    /\ recency = <<>>
    /\ pureInserts = <<>>
    /\ pure = TRUE
    /\ fresh = 0
    /\ nops = 0
    /\ lastOp = [op |-> "ctor", key |-> DefaultKey, hit |-> FALSE, full |-> FALSE]
    /\ returned = Outcome(Ret("void", DefaultValue), 0)
    /\ inserted = <<>>

Snapshot(op, k, hit, full) == [op |-> op, key |-> k, hit |-> hit, full |-> full]

(* Bookkeeping of every operation: operations are counted up to MaxOps, and *)
(* keys are first used in increasing order (the cache never compares keys   *)
(* but for equality, so any other run is a renaming of one of these).       *)
Step(k) ==
    /\ ~aborted
    /\ returned.ret.kind # "never"
    /\ nops < MaxOps
    /\ k <= fresh + 1
    /\ nops' = nops + 1
    /\ fresh' = IF k > fresh THEN k ELSE fresh

(* The body of try_get() on a hit: the found slot is moved to the front.   *)
PromoteItems(newHead) ==
    IF newHead # head_
    THEN LET i1 == [items_ EXCEPT ![head_].prev = newHead]
             i2 == [i1 EXCEPT ![head_].next = i1[newHead].next]
             i3 == [i2 EXCEPT ![newHead].next = head_]
             i4 == [i3 EXCEPT ![newHead].prev = npos]
         IN  i4
    ELSE items_

(* try_get(), touch(), contains(), at(): all of them run try_get().        *)
TryGet(k) ==
    /\ Step(k)
    /\ IF Mapped(k)
       THEN LET newHead == itemByKeyMapping_[k]
            IN  /\ items_' = PromoteItems(newHead)
                /\ head_' = newHead
                /\ recency' = <<k>> \o Without(recency, k)
                /\ lastOp' = Snapshot("try_get", k, TRUE, FALSE)
       ELSE /\ UNCHANGED <<items_, head_, recency>>
            /\ lastOp' = Snapshot("try_get", k, FALSE, FALSE)
    /\ pure' = FALSE
    /\ returned' = Outcome(TryGetResult(k), 0)
    /\ UNCHANGED <<capacity_, tail_, itemByKeyMapping_, aborted, oob, pureInserts,
                   inserted>>
    /\ UNCHANGED <<parserVars, locatorVars, imageVars>>


(* contains(): `return try_get(_key) != nullptr`, where the const try_get() *)
(* casts the constness away and runs the try_get() that moves the found     *)
(* slot to the front.                                                       *)
Contains(k) ==
    /\ Step(k)
    /\ IF Mapped(k)
       THEN LET newHead == itemByKeyMapping_[k]
            IN  /\ items_' = PromoteItems(newHead)
                /\ head_' = newHead
                /\ recency' = <<k>> \o Without(recency, k)
                /\ lastOp' = Snapshot("contains", k, TRUE, FALSE)
       ELSE /\ UNCHANGED <<items_, head_, recency>>
            /\ lastOp' = Snapshot("contains", k, FALSE, FALSE)
    /\ pure' = FALSE
    /\ returned' = Outcome(Ret("bool", Mapped(k)), 0)
    /\ UNCHANGED <<capacity_, tail_, itemByKeyMapping_, aborted, oob, pureInserts,
                   inserted>>
    /\ UNCHANGED <<parserVars, locatorVars, imageVars>>

(* prepend_internal(): the new entry takes slot size() and becomes head.    *)
PrependSlot == size

(* prepend_internal() without items_[newHead].value = std::move(_value).    *)
PrependItemsNoValue(k, v) ==
    LET newHead == PrependSlot
        i1 == [items_ EXCEPT ![newHead].key = k]
        i3 == [i1 EXCEPT ![newHead].next = head_]
        i4 == IF head_ # npos THEN [i3 EXCEPT ![head_].prev = newHead] ELSE i3
    IN  i4

PrependItems(k, v) ==
    LET newHead == PrependSlot
        i1 == [items_ EXCEPT ![newHead].key = k]
        i2 == [i1 EXCEPT ![newHead].value = v]
        i3 == [i2 EXCEPT ![newHead].next = head_]
        i4 == IF head_ # npos THEN [i3 EXCEPT ![head_].prev = newHead] ELSE i3
    IN  i4

PrependTail == IF tail_ = npos THEN PrependSlot ELSE tail_

(* itemByKeyMapping_.emplace(_key, head_): an entry that exists is kept.     *)
PrependMapping(k) == itemByKeyMapping_ @@ (k :> PrependSlot)

(* evict_one_and_push_front(): the slot found through the key stored at     *)
(* tail_ is reused for the new key and linked before head_.                 *)
(* tailKey is items_[tail_].key and newTail is items_[tail_].prev; both are *)
(* read from the slot when tail_ is a slot, and are whatever lies outside   *)
(* the vector's buffer when tail_ is npos or another index that is no slot. *)
EvictSlot(tailKey) == itemByKeyMapping_[tailKey]

(* erase(i) and then emplace(_newKey, newHead), which keeps an entry that    *)
(* _newKey still has.                                                       *)
EvictMapping(k, tailKey) ==
    LET newHead == EvictSlot(tailKey)
        erased == [x \in DOMAIN itemByKeyMapping_ \ {tailKey} |-> itemByKeyMapping_[x]]
    IN  erased @@ (k :> newHead)

EvictItems(k, tailKey, newTail) ==
    LET newHead == EvictSlot(tailKey)
        i1 == [items_ EXCEPT ![head_].prev = newHead]
        i2 == [i1 EXCEPT ![newHead].prev = npos]
        i3 == [i2 EXCEPT ![newHead].key = k]
        i4 == [i3 EXCEPT ![newHead].next = head_]
        \* items_[newTail].next = npos lands outside the vector's buffer when
        \* newTail is no slot
        i5 == IF newTail \in Slots THEN [i4 EXCEPT ![newTail].next = npos] ELSE i4
    IN  i5

(* The values items_[tail_].key and items_[tail_].prev can have.            *)
TailKeys == IF tail_ \in Slots THEN {items_[tail_].key} ELSE Keys \cup {DefaultKey}
TailPrevs ==
    IF tail_ \in Slots THEN {items_[tail_].prev} ELSE (0..MaxIndex) \cup {npos}

(* The body of emplace() after its first assert, which is also the insert   *)
(* branch of try_emplace(). `builds` holds TRUE for the build with          *)
(* assertions and FALSE for the build without them (NDEBUG).                *)
EmplaceBody(k, v, builds) ==
    IF size = capacity_
    THEN \E tailKey \in TailKeys, newTail \in TailPrevs, asserts \in builds :
            /\ oob' = (oob \/ tail_ \notin Slots \/ newTail \notin Slots)
            /\ IF tailKey \notin DOMAIN itemByKeyMapping_
               THEN \* find() returns end(): assert(i != end) fails, or end() is
                    \* dereferenced
                    /\ aborted' = TRUE
                    /\ UNCHANGED <<items_, head_, tail_, itemByKeyMapping_>>
               ELSE /\ itemByKeyMapping_' = EvictMapping(k, tailKey)
                    /\ head_' = EvictSlot(tailKey)
                    /\ tail_' = newTail
                    /\ IF newTail = npos /\ asserts
                       THEN \* assert(tail_ != npos) fails, before the value is stored
                            /\ aborted' = TRUE
                            /\ items_' = EvictItems(k, tailKey, newTail)
                       ELSE /\ aborted' = FALSE
                            /\ items_' = [EvictItems(k, tailKey, newTail)
                                            EXCEPT ![EvictSlot(tailKey)].value = v]
    ELSE /\ items_' = PrependItems(k, v)
         /\ head_' = PrependSlot
         /\ tail_' = PrependTail
         /\ itemByKeyMapping_' = PrependMapping(k)
         /\ UNCHANGED <<aborted, oob>>

(* emplace() of an absent key, and the insert branch of operator[],         *)
(* get_or_emplace() and try_emplace(), in either build.                     *)
EmplaceEffect(k, v) == EmplaceBody(k, v, BOOLEAN)

(* The reference to the stored value that an insertion returns.             *)
InsertResult(v) == IF aborted' THEN Ret("void", DefaultValue) ELSE Ret("value", v)

InsertHistory(k, v, op) ==
    /\ recency' = <<k>> \o Restrict(Without(recency, k), DOMAIN itemByKeyMapping_')
    /\ inserted' = [x \in DOMAIN itemByKeyMapping_' |-> ((k :> v) @@ inserted)[x]]
    /\ lastOp' = Snapshot(op, k, Mapped(k), size = capacity_)
    /\ IF pure /\ (\A i \in 1..Len(pureInserts) : pureInserts[i][1] # k)
       THEN /\ pureInserts' = Append(pureInserts, <<k, v>>)
            /\ pure' = TRUE
       ELSE /\ pure' = FALSE
            /\ UNCHANGED pureInserts

(* The state change of try_get(k) inside at(), operator[], get_or_emplace() *)
(* and try_emplace(): a hit moves the found slot to the front.              *)
LookupEffect(k) ==
    IF Mapped(k)
    THEN /\ items_' = PromoteItems(itemByKeyMapping_[k])
         /\ head_' = itemByKeyMapping_[k]
         /\ recency' = <<k>> \o Without(recency, k)
    ELSE UNCHANGED <<items_, head_, recency>>

(* emplace(). It begins with assert(!contains(_key)): for a contained key   *)
(* the build with assertions runs contains(), which moves the key to the    *)
(* front, and dies; the build without assertions does not evaluate the      *)
(* assert and inserts the key once more.                                    *)
Emplace(k, v) ==
    /\ Step(k)
    /\ \/ /\ ~Mapped(k)
          /\ EmplaceEffect(k, v)
          /\ InsertHistory(k, v, "emplace")
          /\ returned' = Outcome(InsertResult(v), 0)
       \/ /\ Mapped(k)
          /\ LookupEffect(k)
          /\ aborted' = TRUE
          /\ lastOp' = Snapshot("emplace", k, TRUE, size = capacity_)
          /\ returned' = Outcome(Ret("void", DefaultValue), 0)
          /\ pure' = FALSE
          /\ UNCHANGED <<tail_, itemByKeyMapping_, oob, pureInserts, inserted>>
       \/ /\ Mapped(k)
          /\ EmplaceBody(k, v, {FALSE})
          /\ InsertHistory(k, v, "emplace")
          /\ returned' = Outcome(InsertResult(v), 0)
    /\ UNCHANGED capacity_
    /\ UNCHANGED <<parserVars, locatorVars, imageVars>>

(* clear(): the used slots and the hash map are reset.                      *)
Clear ==
    /\ Step(DefaultKey)
    /\ items_' = [s \in Slots |-> IF s < size THEN EmptyItem ELSE items_[s]]
    /\ itemByKeyMapping_' = <<>>
    /\ recency' = <<>>
    /\ lastOp' = Snapshot("clear", DefaultKey, FALSE, FALSE)
    /\ returned' = Outcome(Ret("void", DefaultValue), 0)
    /\ inserted' = <<>>
    /\ pure' = FALSE
    /\ UNCHANGED <<capacity_, head_, tail_, aborted, oob, pureInserts>>
    /\ UNCHANGED <<parserVars, locatorVars, imageVars>>

(* at() that dereferences what try_get() returned without testing it.      *)
AtResultNoThrow(k) == TryGetResult(k)

(* at(): the value found by try_get(), or std::out_of_range.                *)
AtResult(k) ==
    IF Mapped(k) THEN TryGetResult(k) ELSE Ret("out_of_range", DefaultValue)

At(k) ==
    /\ Step(k)
    /\ nops < MaxMixedOps
    /\ LookupEffect(k)
    /\ lastOp' = Snapshot("at", k, Mapped(k), FALSE)
    /\ returned' = Outcome(AtResult(k), 0)
    /\ pure' = FALSE
    /\ UNCHANGED <<capacity_, tail_, itemByKeyMapping_, aborted, oob, pureInserts,
                   inserted>>
    /\ UNCHANGED <<parserVars, locatorVars, imageVars>>

(* The loop of repr(), which get_or_emplace() runs after its insertion,     *)
(* follows next from head until the sentinel: on a cyclic chain it never    *)
(* ends.                                                                    *)
ReprLoops(items, head) == Len(Chain(items, head, capacity_ + 1)) > capacity_

(* The shape shared by operator[], get_or_emplace() and try_emplace():      *)
(* try_get(k); on a miss the value is constructed once and inserted.        *)
(* `hitRet` is what a hit returns, `missRet` what a completed insertion     *)
(* returns.                                                                 *)
LookupOrInsert(op, k, v, hitRet, missRet) ==
    /\ Step(k)
    /\ nops < MaxMixedOps
    /\ IF Mapped(k)
       THEN /\ LookupEffect(k)
            /\ lastOp' = Snapshot(op, k, TRUE, FALSE)
            /\ returned' = Outcome(hitRet, 0)
            /\ pure' = FALSE
            /\ UNCHANGED <<tail_, itemByKeyMapping_, aborted, oob, pureInserts,
                           inserted>>
       ELSE /\ EmplaceEffect(k, v)
            /\ InsertHistory(k, v, op)
            /\ returned' = Outcome(IF aborted' THEN Ret("void", DefaultValue)
                                   ELSE IF op = "get_or_emplace"
                                           /\ ReprLoops(items_', head_')
                                   THEN Ret("never", DefaultValue)
                                   ELSE missRet, 1)

(* operator[]: emplace(_key, {}) on a miss.                                 *)
OperatorIndex(k) ==
    /\ LookupOrInsert("operator[]", k, DefaultValue, TryGetResult(k),
                      Ret("value", DefaultValue))
    /\ UNCHANGED <<capacity_, parserVars, locatorVars, imageVars>>

(* get_or_emplace(): emplace(_key, _constructValue()) on a miss.            *)
GetOrEmplace(k, v) ==
    /\ LookupOrInsert("get_or_emplace", k, v, TryGetResult(k), Ret("value", v))
    /\ UNCHANGED <<capacity_, parserVars, locatorVars, imageVars>>

(* try_emplace(): false on a hit, true after the insertion.                 *)
TryEmplace(k, v) ==
    /\ LookupOrInsert("try_emplace", k, v, Ret("bool", FALSE), Ret("bool", TRUE))
    /\ UNCHANGED <<capacity_, parserVars, locatorVars, imageVars>>

(* begin() .. end(): the first size() elements of items_, in slot order.    *)
Iteration == [i \in 1..size |-> items_[i - 1].key]

(* Lookups and insertions.                                                  *)
NextLRU ==
    \/ \E k \in Keys : TryGet(k)
    \/ \E k \in Keys, v \in Values : Emplace(k, v)

(* contains() and insertions.                                               *)
NextLRUContains ==
    \/ \E k \in Keys : Contains(k)
    \/ \E k \in Keys, v \in Values : Emplace(k, v)

(* Lookups, insertions and clear().                                         *)
NextLRUClear ==
    \/ \E k \in Keys : TryGet(k)
    \/ \E k \in Keys, v \in Values : Emplace(k, v)
    \/ Clear

(* at(), operator[], get_or_emplace() and try_emplace(), which are built on *)
(* try_get() and emplace(); runs of these are at most MaxMixedOps long.     *)
NextLRUOps ==
    \/ \E k \in Keys : At(k)
    \/ \E k \in Keys : OperatorIndex(k)
    \/ \E k \in Keys, v \in Values : GetOrEmplace(k, v)
    \/ \E k \in Keys, v \in Values : TryEmplace(k, v)



----------------------------------------------------------------------------
(* Properties of the LRU cache.                                             *)

Range(f) == {f[x] : x \in DOMAIN f}

IsDistinct(sq) == \A i, j \in 1..Len(sq) : i # j => sq[i] # sq[j]

(* The key whose last access is oldest.                                     *)
OldestKey == recency[Len(recency)]

(* C1: an insertion of an absent key into a full cache that completes      *)
(* removes exactly the key whose last access (insertion or successful      *)
(* lookup) is oldest, and no other key.                                    *)
C1_EvictsOldest ==
    [][(lastOp'.op = "emplace" /\ ~lastOp'.hit /\ lastOp'.full /\ ~aborted')
         => DOMAIN itemByKeyMapping_'
              = (DOMAIN itemByKeyMapping_ \ {OldestKey}) \cup {lastOp'.key}]_vars

(* C3: keys() returns every contained key exactly once, most recently used *)
(* first: it equals the reference move-to-front order of the contained     *)
(* keys.                                                                   *)
C3_KeysIsRecencyOrder ==
    ~aborted => (~KeysOverflows /\ keys = recency)

(* C4: the slots reachable from head by next form one acyclic chain of     *)
(* exactly size() used slots ending at the sentinel, the last of them is   *)
(* tail, prev is the inverse of next along it, and head's prev and tail's  *)
(* next are the sentinel.                                                  *)
ListWellFormed ==
    LET c == ChainOf(items_, head_)
    IN  /\ Len(c) = size
        /\ IsDistinct(c)
        /\ SeqToSet(c) = Range(itemByKeyMapping_)
        /\ size > 0 =>
             /\ head_ = c[1]
             /\ tail_ = c[Len(c)]
             /\ items_[c[1]].prev = npos
             /\ items_[c[Len(c)]].next = npos
             /\ \A i \in 1..(Len(c) - 1) : items_[c[i + 1]].prev = c[i]

C4_ListStructure == ~aborted => ListWellFormed

(* The slot that precedes slot s in the chain (npos for the head).         *)
Predecessor(s) ==
    LET c == ChainOf(items_, head_)
    IN  IF \E i \in 2..Len(c) : c[i] = s
        THEN c[(CHOOSE i \in 2..Len(c) : c[i] = s) - 1]
        ELSE npos

(* C8: a successful lookup of k keeps size() and the contents, makes k the *)
(* first of keys(), keeps the order of the other keys, and if k was the    *)
(* tail the tail becomes k's former predecessor.                           *)
C8_Promotion ==
    [][(lastOp'.op = "try_get" /\ lastOp'.hit /\ ListWellFormed)
         => /\ Contents' = Contents
            /\ keys' = <<lastOp'.key>> \o Without(keys, lastOp'.key)
            /\ (itemByKeyMapping_[lastOp'.key] = tail_ /\ size > 1)
                  => tail_' = Predecessor(tail_)
            /\ (itemByKeyMapping_[lastOp'.key] # tail_) => tail_' = tail_]_vars

(* C9: capacity + 1 distinct keys inserted into an empty cache, with no    *)
(* lookup in between, leave size() == capacity, the first key evicted, the *)
(* others retrievable with their values, and head and tail valid slots.    *)
C9_FirstInEviction ==
    (pure /\ Len(pureInserts) = capacity_ + 1)
      => /\ ~aborted
         /\ size = capacity_
         /\ ~Mapped(pureInserts[1][1])
         /\ \A i \in 2..Len(pureInserts) :
               /\ Mapped(pureInserts[i][1])
               /\ Contents[pureInserts[i][1]] = pureInserts[i][2]
         /\ head_ \in Slots
         /\ tail_ \in Slots

(* C10: in every reachable state size() <= capacity(), the hash map maps    *)
(* the contained keys injectively onto the slots 0..size()-1, each of which *)
(* stores the key mapped to it, and an insertion below capacity uses slot   *)
(* size(), the first unused slot: the slot of the new head is the size()    *)
(* the call found, and the key maps to it.                                  *)
C10_MapSlotConsistency ==
    /\ size <= capacity_
    /\ Range(itemByKeyMapping_) = 0..(size - 1)
    /\ \A k1, k2 \in DOMAIN itemByKeyMapping_ :
          itemByKeyMapping_[k1] = itemByKeyMapping_[k2] => k1 = k2
    /\ \A k \in DOMAIN itemByKeyMapping_ : items_[itemByKeyMapping_[k]].key = k
    /\ (lastOp.op = "emplace" /\ ~lastOp.full /\ ~aborted)
          => /\ head_ = (IF lastOp.hit THEN size ELSE size - 1)
             /\ ~lastOp.hit => itemByKeyMapping_[lastOp.key] = head_

(* The operations that look a key up and hand its value back on a hit.     *)
ValueLookups == {"try_get", "at", "operator[]", "get_or_emplace"}

(* C11: a lookup of a key that is in the cache returns the value that was  *)
(* last inserted for it, whatever lookups and insertions of other keys     *)
(* happened since: while the process lives, every contained key reads     *)
(* back its inserted value, and the last lookup that hit returned it.      *)
C11_InsertGetRoundTrip ==
    ~aborted
      => /\ DOMAIN inserted = DOMAIN itemByKeyMapping_
         /\ \A k \in DOMAIN itemByKeyMapping_ :
               TryGetResult(k) = Ret("value", inserted[k])
         /\ (lastOp.op \in ValueLookups /\ lastOp.hit)
               => returned.ret = Ret("value", inserted[lastOp.key])

(* A key inserted before the newest one, with a non-default value, was     *)
(* found by at() after an eviction had happened.                           *)
C11_Witness ==
    /\ lastOp.op = "at"
    /\ lastOp.hit
    /\ lastOp.key < fresh
    /\ fresh > capacity_
    /\ size = capacity_
    /\ returned.ret = Ret("value", 1)

(* C12: at(k) for a key that is not contained fails with std::out_of_range *)
(* and leaves size(), the contents and the order of keys() as they were;   *)
(* at(k) for a contained key returns its value and does not fail.          *)
C12_AtNotFound ==
    [][lastOp'.op = "at"
         => IF Mapped(lastOp'.key)
            THEN returned'.ret = Ret("value", Contents[lastOp'.key])
            ELSE /\ returned'.ret.kind = "out_of_range"
                 /\ size' = size
                 /\ Contents' = Contents
                 /\ keys' = keys
                 /\ <<items_, head_, tail_, itemByKeyMapping_>>'
                       = <<items_, head_, tail_, itemByKeyMapping_>>
                 /\ aborted' = aborted]_vars

(* at() has failed on an absent key of a cache that holds other keys.      *)
C12_Witness ==
    /\ lastOp.op = "at"
    /\ ~lastOp.hit
    /\ size >= 2
    /\ returned.ret.kind = "out_of_range"

(* The keys the cache holds after inserting the absent key k by the LRU    *)
(* rule: the least recently used key makes room when the cache is full.    *)
KeysAfterInsert(k) ==
    IF size = capacity_
    THEN (DOMAIN itemByKeyMapping_ \ {OldestKey}) \cup {k}
    ELSE DOMAIN itemByKeyMapping_ \cup {k}

(* C13: try_emplace(k, f) returns true iff k was absent. For an absent k   *)
(* it invokes f once and inserts k as the most recently used entry with    *)
(* f's result, evicting the least recently used key of a full cache; for a *)
(* contained k it does not invoke f, keeps the stored values, returns      *)
(* false and makes k the most recently used entry.                         *)
C13_TryEmplace ==
    [][lastOp'.op = "try_emplace"
         => /\ ~aborted'
            /\ returned'.ret = Ret("bool", ~Mapped(lastOp'.key))
            /\ keys'[1] = lastOp'.key
            /\ recency' = <<lastOp'.key>> \o Without(keys, lastOp'.key)
                  \/ ~Mapped(lastOp'.key)
            /\ IF Mapped(lastOp'.key)
               THEN /\ returned'.made = 0
                    /\ Contents' = Contents
               ELSE /\ returned'.made = 1
                    /\ DOMAIN itemByKeyMapping_' = KeysAfterInsert(lastOp'.key)
                    /\ Contents'[lastOp'.key] = inserted'[lastOp'.key]]_vars

(* C14: get_or_emplace() and operator[] return the stored value of a       *)
(* contained key without constructing a value or changing size(); for an   *)
(* absent key they construct the value once and insert it as the most      *)
(* recently used entry: size() grows by one below capacity and stays at    *)
(* capacity otherwise.                                                     *)
C14_GetOrEmplace ==
    [][lastOp'.op \in {"get_or_emplace", "operator[]"}
         => /\ ~aborted'
            /\ IF Mapped(lastOp'.key)
               THEN /\ returned' = Outcome(Ret("value", Contents[lastOp'.key]), 0)
                    /\ size' = size
               ELSE /\ returned'.made = 1
                    /\ returned'.ret = Ret("value", Contents'[lastOp'.key])
                    /\ Contents'[lastOp'.key] = inserted'[lastOp'.key]
                    /\ keys'[1] = lastOp'.key
                    /\ size' = IF size < capacity_ THEN size + 1 ELSE capacity_]_vars

(* C15: after clear() the cache is as constructed: size() is 0, no key is  *)
(* contained, head and tail are the sentinel, keys() is empty and every    *)
(* slot is an empty Item, so that later insertions act as on a new cache.  *)
C15_ClearEmpties ==
    lastOp.op = "clear"
      => /\ size = 0
         /\ itemByKeyMapping_ = <<>>
         /\ head_ = npos
         /\ tail_ = npos
         /\ ~KeysOverflows
         /\ keys = <<>>
         /\ \A s \in Slots : items_[s] = EmptyItem

(* C16: iterating from begin() to end() visits the size() contained        *)
(* entries most recently used first, in the order of keys().               *)
C16_IterationOrder ==
    ~aborted => (Iteration = recency /\ Iteration = keys)

----------------------------------------------------------------------------
(* terminal::parser: the transition table of ParserTable::get().            *)
(* Bytes are the numbers 0..255; states and actions carry their enumerator  *)
(* names. A later statement of get() overwrites an earlier one for the same *)
(* (state, byte).                                                           *)

States == {"Ground", "Escape", "EscapeIntermediate", "CSI_Entry", "CSI_Param",
           "CSI_Intermediate", "CSI_Ignore", "DCS_Entry", "DCS_Param",
           "DCS_Intermediate", "DCS_PassThrough", "DCS_Ignore", "OSC_String",
           "APC_String", "PM_String", "IgnoreUntilST"}

InRange(b, lo, hi) == lo <= b /\ b <= hi

(* Range { 0x00, 0x17 }, 0x19, Range { 0x1C, 0x1F }                          *)
IsC0(b) == InRange(b, 0, 23) \/ b = 25 \/ InRange(b, 28, 31)

(* The actions get() registers for (state, byte): the t.event calls and the  *)
(* t.transition calls that carry an action.                                  *)
EventActions(s, b) ==
    CASE s = "Ground" ->
            IF IsC0(b) THEN "Execute"
            ELSE IF InRange(b, 32, 127) THEN "Print"
            ELSE IF InRange(b, 128, 255) THEN "Print"
            ELSE "Undefined"
      [] s = "EscapeIntermediate" ->
            IF IsC0(b) THEN "Execute"
            ELSE IF InRange(b, 32, 47) THEN "Collect"
            ELSE IF b = 127 THEN "Ignore"
            ELSE IF InRange(b, 48, 126) THEN "ESC_Dispatch"
            ELSE "Undefined"
      [] s = "Escape" ->
            IF IsC0(b) THEN "Execute"
            ELSE IF b = 127 THEN "Ignore"
            ELSE IF InRange(b, 48, 79) \/ InRange(b, 81, 87) \/ b = 89 \/ b = 90
                    \/ InRange(b, 96, 126) THEN "ESC_Dispatch"
            ELSE IF b = 92 THEN "Ignore"
            ELSE IF InRange(b, 32, 47) THEN "Collect"
            ELSE "Undefined"
      [] s = "IgnoreUntilST" ->
            IF IsC0(b) THEN "Ignore" ELSE "Undefined"
      [] s = "DCS_Entry" ->
            IF IsC0(b) THEN "Ignore"
            ELSE IF b = 127 THEN "Ignore"
            ELSE IF InRange(b, 32, 47) THEN "Collect"
            ELSE IF InRange(b, 48, 57) \/ b = 59 THEN "Param"
            ELSE IF InRange(b, 60, 63) THEN "CollectLeader"
            ELSE "Undefined"
      [] s = "DCS_Ignore" ->
            IF IsC0(b) \/ InRange(b, 32, 127) THEN "Ignore"
            ELSE IF InRange(b, 128, 255) THEN "Print"
            ELSE "Undefined"
      [] s = "DCS_Intermediate" ->
            IF IsC0(b) THEN "Ignore"
            ELSE IF InRange(b, 32, 47) THEN "Collect"
            ELSE IF b = 127 THEN "Ignore"
            ELSE "Undefined"
      [] s = "DCS_PassThrough" ->
            IF IsC0(b) \/ InRange(b, 32, 126) THEN "Put"
            ELSE IF b = 127 THEN "Ignore"
            ELSE "Undefined"
      [] s = "DCS_Param" ->
            IF IsC0(b) THEN "Execute"
            ELSE IF InRange(b, 48, 57) \/ b = 59 THEN "Param"
            ELSE IF b = 127 THEN "Ignore"
            ELSE "Undefined"
      [] s = "OSC_String" ->
            IF InRange(b, 0, 6) \/ InRange(b, 8, 23) \/ b = 25 \/ InRange(b, 28, 31)
            THEN "Ignore"
            ELSE IF InRange(b, 32, 127) THEN "OSC_Put"
            ELSE IF InRange(b, 128, 255) THEN "OSC_Put"
            ELSE "Undefined"
      [] s = "APC_String" ->
            IF InRange(b, 32, 127) THEN "APC_Put"
            ELSE IF InRange(b, 128, 255) THEN "APC_Put"
            ELSE "Undefined"
      [] s = "PM_String" ->
            IF IsC0(b) \/ InRange(b, 32, 127) \/ InRange(b, 160, 255) THEN "PM_Put"
            ELSE IF InRange(b, 128, 255) THEN "PM_Put"
            ELSE "Undefined"
      [] s = "CSI_Entry" ->
            IF IsC0(b) THEN "Execute"
            ELSE IF b = 127 THEN "Ignore"
            ELSE IF InRange(b, 64, 126) THEN "CSI_Dispatch"
            ELSE IF InRange(b, 32, 47) THEN "Collect"
            ELSE IF InRange(b, 48, 57) THEN "ParamDigit"
            ELSE IF b = 59 THEN "ParamSeparator"
            ELSE IF InRange(b, 60, 63) THEN "CollectLeader"
            ELSE "Undefined"
      [] s = "CSI_Param" ->
            IF IsC0(b) THEN "Execute"
            ELSE IF InRange(b, 48, 57) THEN "ParamDigit"
            ELSE IF b = 58 THEN "ParamSubSeparator"
            ELSE IF b = 59 THEN "ParamSeparator"
            ELSE IF b = 127 THEN "Ignore"
            ELSE IF InRange(b, 32, 47) THEN "Collect"
            ELSE IF InRange(b, 64, 126) THEN "CSI_Dispatch"
            ELSE "Undefined"
      [] s = "CSI_Ignore" ->
            IF IsC0(b) THEN "Execute"
            ELSE IF InRange(b, 32, 63) \/ b = 127 THEN "Ignore"
            ELSE "Undefined"
      [] s = "CSI_Intermediate" ->
            IF IsC0(b) THEN "Execute"
            ELSE IF InRange(b, 32, 47) THEN "Collect"
            ELSE IF b = 127 THEN "Ignore"
            ELSE IF InRange(b, 64, 126) THEN "CSI_Dispatch"
            ELSE "Undefined"
      [] OTHER -> "Undefined"

(* The transitions of get() that do not hold for every state.               *)
StateTransitions(s, b) ==
    CASE s = "EscapeIntermediate" ->
            IF InRange(b, 48, 126) THEN "Ground" ELSE "Undefined"
      [] s = "Escape" ->
            IF b = 88 THEN "IgnoreUntilST"
            ELSE IF b = 94 THEN "PM_String"
            ELSE IF b = 95 THEN "APC_String"
            ELSE IF b = 80 THEN "DCS_Entry"
            ELSE IF b = 93 THEN "OSC_String"
            ELSE IF b = 91 THEN "CSI_Entry"
            ELSE IF InRange(b, 48, 79) \/ InRange(b, 81, 87) \/ b = 89 \/ b = 90
                    \/ b = 92 \/ InRange(b, 96, 126) THEN "Ground"
            ELSE IF InRange(b, 32, 47) THEN "EscapeIntermediate"
            ELSE "Undefined"
      [] s = "DCS_Entry" ->
            IF InRange(b, 32, 47) THEN "DCS_Intermediate"
            ELSE IF b = 58 THEN "DCS_Ignore"
            ELSE IF InRange(b, 48, 57) \/ b = 59 THEN "DCS_Param"
            ELSE IF InRange(b, 60, 63) THEN "DCS_Param"
            ELSE IF InRange(b, 64, 126) THEN "DCS_PassThrough"
            ELSE "Undefined"
      [] s = "DCS_Intermediate" ->
            IF InRange(b, 64, 126) THEN "DCS_PassThrough" ELSE "Undefined"
      [] s = "DCS_Param" ->
            IF b = 58 \/ InRange(b, 60, 63) THEN "DCS_Ignore"
            ELSE IF InRange(b, 32, 47) THEN "DCS_Intermediate"
            ELSE IF InRange(b, 64, 126) THEN "DCS_PassThrough"
            ELSE "Undefined"
      [] s = "OSC_String" -> IF b = 7 THEN "Ground" ELSE "Undefined"
      [] s = "APC_String" -> IF b = 7 THEN "Ground" ELSE "Undefined"
      [] s = "PM_String" -> IF b = 7 THEN "Ground" ELSE "Undefined"
      [] s = "CSI_Entry" ->
            IF InRange(b, 64, 126) THEN "Ground"
            ELSE IF InRange(b, 32, 47) THEN "CSI_Intermediate"
            ELSE IF b = 58 THEN "CSI_Ignore"
            ELSE IF InRange(b, 48, 57) \/ b = 59 \/ InRange(b, 60, 63) THEN "CSI_Param"
            ELSE "Undefined"
      [] s = "CSI_Param" ->
            IF InRange(b, 60, 63) THEN "CSI_Ignore"
            ELSE IF InRange(b, 32, 47) THEN "CSI_Intermediate"
            ELSE IF InRange(b, 64, 126) THEN "Ground"
            ELSE "Undefined"
      [] s = "CSI_Ignore" ->
            IF InRange(b, 64, 126) THEN "Ground" ELSE "Undefined"
      [] s = "CSI_Intermediate" ->
            IF InRange(b, 48, 63) THEN "CSI_Ignore"
            ELSE IF InRange(b, 64, 126) THEN "Ground"
            ELSE "Undefined"
      [] OTHER -> "Undefined"

(* The loop that ends get() without its transitions on 0x18 and 0x1A.       *)
AnywhereTransitionsNoCancel(s, b) ==
    IF b = 27 THEN "Escape" ELSE "Undefined"

(* The loop that ends get() with "<" for "<=": it stops before the last     *)
(* state, IgnoreUntilST.                                                    *)
AnywhereTransitionsSkipLast(s, b) ==
    IF s = "IgnoreUntilST" THEN "Undefined"
    ELSE IF b = 24 \/ b = 26 THEN "Ground"
    ELSE IF b = 27 THEN "Escape"
    ELSE "Undefined"

(* The loop that ends get() without its transition on 0x1B.                 *)
AnywhereTransitionsNoEscape(s, b) ==
    IF b = 24 \/ b = 26 THEN "Ground" ELSE "Undefined"

(* The loop that ends get() with the C1 transitions it has commented out.   *)
AnywhereTransitionsC1(s, b) ==
    IF b = 24 \/ b = 26 THEN "Ground"
    ELSE IF b = 27 THEN "Escape"
    ELSE IF b = 156 \/ InRange(b, 128, 143) \/ InRange(b, 145, 151) THEN "Ground"
    ELSE IF b = 144 THEN "DCS_Entry"
    ELSE IF b = 152 THEN "IgnoreUntilST"
    ELSE IF b = 158 THEN "PM_String"
    ELSE IF b = 159 THEN "APC_String"
    ELSE "Undefined"

(* The loop over all states that ends get(): 0x18 and 0x1A lead to Ground,  *)
(* 0x1B leads to Escape.                                                    *)
AnywhereTransitions(s, b) ==
    IF b = 24 \/ b = 26 THEN "Ground"
    ELSE IF b = 27 THEN "Escape"
    ELSE "Undefined"

(* table.transitions[state][byte]                                           *)
TransitionsOf(s, b) ==
    IF AnywhereTransitions(s, b) # "Undefined" THEN AnywhereTransitions(s, b)
    ELSE StateTransitions(s, b)

(* The t.transition calls of the string states that name no action.         *)
StringTransitionsWithoutAction(s, b) ==
    s \in {"OSC_String", "APC_String", "PM_String"} /\ b = 7

(* The t.transition(from, to, input) calls of get(): the transitions that   *)
(* name no action.  Each is registered after the t.event calls of its       *)
(* state, the anywhere transitions after every state.                       *)
TransitionsWithoutAction(s, b) ==
    \/ AnywhereTransitions(s, b) # "Undefined"
    \/ s = "Escape" /\ b \in {88, 94, 95, 80, 93, 91}
    \/ s = "CSI_Entry" /\ b = 58
    \/ s = "CSI_Param" /\ InRange(b, 60, 63)
    \/ s = "CSI_Ignore" /\ InRange(b, 64, 126)
    \/ s = "CSI_Intermediate" /\ InRange(b, 48, 63)
    \/ s = "DCS_Entry" /\ (b = 58 \/ InRange(b, 64, 126))
    \/ s = "DCS_Intermediate" /\ InRange(b, 64, 126)
    \/ s = "DCS_Param"
          /\ (b = 58 \/ InRange(b, 60, 63) \/ InRange(b, 32, 47)
                \/ InRange(b, 64, 126))
    \/ StringTransitionsWithoutAction(s, b)

(* table.events[state][byte]. ParserTable::transition() is defined in       *)
(* Parser.h; by the specification the action emitted for a byte that drives *)
(* a transition is the transition's own event action, if it names one: a    *)
(* transition that names no action leaves Action::Ignore for its (state,    *)
(* byte), also where a t.event call had registered an action before.        *)
EventsOf(s, b) ==
    IF TransitionsWithoutAction(s, b) THEN "Ignore" ELSE EventActions(s, b)

(* get() without t.entry(State::Escape, Action::Clear).                     *)
EntryEventsOfNoEscapeClear(s) ==
    CASE s = "DCS_Entry" -> "Clear"
      [] s = "DCS_PassThrough" -> "Hook"
      [] s = "OSC_String" -> "OSC_Start"
      [] s = "APC_String" -> "APC_Start"
      [] s = "PM_String" -> "PM_Start"
      [] s = "CSI_Entry" -> "Clear"
      [] OTHER -> "Undefined"

(* table.entryEvents[state]                                                 *)
EntryEventsOf(s) ==
    CASE s = "Escape" -> "Clear"
      [] s = "DCS_Entry" -> "Clear"
      [] s = "DCS_PassThrough" -> "Hook"
      [] s = "OSC_String" -> "OSC_Start"
      [] s = "APC_String" -> "APC_Start"
      [] s = "PM_String" -> "PM_Start"
      [] s = "CSI_Entry" -> "Clear"
      [] OTHER -> "Undefined"

(* get() without t.exit(State::OSC_String, Action::OSC_End).                *)
ExitEventsOfNoOscEnd(s) ==
    CASE s = "DCS_PassThrough" -> "Unhook"
      [] s = "APC_String" -> "APC_End"
      [] s = "PM_String" -> "PM_End"
      [] OTHER -> "Undefined"

(* get() without t.exit(State::APC_String, Action::APC_End).                *)
ExitEventsOfNoApcEnd(s) ==
    CASE s = "DCS_PassThrough" -> "Unhook"
      [] s = "OSC_String" -> "OSC_End"
      [] s = "PM_String" -> "PM_End"
      [] OTHER -> "Undefined"

(* table.exitEvents[state]                                                  *)
ExitEventsOf(s) ==
    CASE s = "DCS_PassThrough" -> "Unhook"
      [] s = "OSC_String" -> "OSC_End"
      [] s = "APC_String" -> "APC_End"
      [] s = "PM_String" -> "PM_End"
      [] OTHER -> "Undefined"


----------------------------------------------------------------------------
(* Parser::handle(): the listener call of an action. A listener event is a  *)
(* record of the method's name, the bytes passed to it and, for             *)
(* print(text, cellCount), the cell count (0 for the other methods).        *)
Event(name, text, cells) == [ev |-> name, text |-> text, cells |-> cells]

Handle(action, ch) ==
    CASE action = "Clear" -> <<Event("clear", <<>>, 0)>>
      [] action = "CollectLeader" -> <<Event("collectLeader", <<ch>>, 0)>>
      [] action = "Collect" -> <<Event("collect", <<ch>>, 0)>>
      [] action = "Param" -> <<Event("param", <<ch>>, 0)>>
      [] action = "ParamDigit" -> <<Event("paramDigit", <<ch>>, 0)>>
      [] action = "ParamSeparator" -> <<Event("paramSeparator", <<>>, 0)>>
      [] action = "ParamSubSeparator" -> <<Event("paramSubSeparator", <<>>, 0)>>
      [] action = "Execute" -> <<Event("execute", <<ch>>, 0)>>
      [] action = "ESC_Dispatch" -> <<Event("dispatchESC", <<ch>>, 0)>>
      [] action = "CSI_Dispatch" -> <<Event("dispatchCSI", <<ch>>, 0)>>
      [] action = "Print" -> <<Event("print", <<ch>>, 0)>>
      [] action = "OSC_Start" -> <<Event("startOSC", <<>>, 0)>>
      [] action = "OSC_Put" -> <<Event("putOSC", <<ch>>, 0)>>
      [] action = "OSC_End" -> <<Event("dispatchOSC", <<>>, 0)>>
      [] action = "Hook" -> <<Event("hook", <<ch>>, 0)>>
      [] action = "Put" -> <<Event("put", <<ch>>, 0)>>
      [] action = "Unhook" -> <<Event("unhook", <<>>, 0)>>
      [] action = "APC_Start" -> <<Event("startAPC", <<>>, 0)>>
      [] action = "APC_Put" -> <<Event("putAPC", <<ch>>, 0)>>
      [] action = "APC_End" -> <<Event("dispatchAPC", <<>>, 0)>>
      [] action = "PM_Start" -> <<Event("startPM", <<>>, 0)>>
      [] action = "PM_Put" -> <<Event("putPM", <<ch>>, 0)>>
      [] action = "PM_End" -> <<Event("dispatchPM", <<>>, 0)>>
      [] OTHER -> <<>>

(* unicode::scan_for_text_ascii(): the length of the longest prefix of      *)
(* printable US-ASCII bytes, at most maxCount.                              *)
IsAsciiText(b) == InRange(b, 32, 127)

RECURSIVE ScanForTextAscii(_, _)
ScanForTextAscii(chunk, maxCount) ==
    IF chunk = <<>> \/ maxCount = 0 \/ ~IsAsciiText(Head(chunk)) THEN 0
    ELSE 1 + ScanForTextAscii(Tail(chunk), maxCount - 1)

(* A call handle(_actionClass, _action, ch), with the state_ it finds.       *)
Call(class, action, s) == [class |-> class, action |-> action, state |-> s]

(* The table-driven step with state_ assigned before the event action of    *)
(* the transition is handled.                                               *)
TableCallsAssignFirst(s, ch) ==
    LET t == TransitionsOf(s, ch)
        a == EventsOf(s, ch)
    IN  IF t # "Undefined"
        THEN <<Call("Leave", ExitEventsOf(s), s), Call("Transition", a, t),
               Call("Enter", EntryEventsOf(t), t)>>
        ELSE IF a # "Undefined"
        THEN <<Call("Event", a, s)>>
        ELSE <<>>

(* The handle() calls of one table-driven step of parseFragment() on byte   *)
(* ch in state s, in the order they are made: state_ is assigned between    *)
(* the call for the event action and the call for the entry action.         *)
TableCalls(s, ch) ==
    LET t == TransitionsOf(s, ch)
        a == EventsOf(s, ch)
    IN  IF t # "Undefined"
        THEN <<Call("Leave", ExitEventsOf(s), s), Call("Transition", a, s),
               Call("Enter", EntryEventsOf(t), t)>>
        ELSE IF a # "Undefined"
        THEN <<Call("Event", a, s)>>
        ELSE <<>>

(* The listener events of a sequence of handle() calls.                     *)
RECURSIVE HandleAll(_, _)
HandleAll(cs, ch) ==
    IF cs = <<>> THEN <<>>
    ELSE Handle(Head(cs).action, ch) \o HandleAll(Tail(cs), ch)

(* The table-driven step with an unknown (state, byte) pair resetting the   *)
(* parser to Ground.                                                        *)
TableStepErrorResets(s, ch) ==
    LET t == TransitionsOf(s, ch)
        a == EventsOf(s, ch)
    IN  IF t # "Undefined"
        THEN [state |-> t,
              events |-> Handle(ExitEventsOf(s), ch) \o Handle(a, ch)
                           \o Handle(EntryEventsOf(t), ch)]
        ELSE IF a # "Undefined"
        THEN [state |-> s, events |-> Handle(a, ch)]
        ELSE [state |-> "Ground", events |-> <<Event("error", <<ch>>, 0)>>]

(* One table-driven step of parseFragment() on byte ch in state s: the      *)
(* state after it and the events it emits.                                  *)
TableStep(s, ch) ==
    LET t == TransitionsOf(s, ch)
        a == EventsOf(s, ch)
    IN  IF t # "Undefined"
        THEN [state |-> t, events |-> HandleAll(TableCalls(s, ch), ch)]
        ELSE IF a # "Undefined"
        THEN [state |-> s, events |-> HandleAll(TableCalls(s, ch), ch)]
        ELSE [state |-> s, events |-> <<Event("error", <<ch>>, 0)>>]

DropFirst(sq, n) == SubSeq(sq, n + 1, Len(sq))

(* The loop of parseFragment() without the text scan in Ground: every byte  *)
(* goes through the table.                                                  *)
RECURSIVE ParseLoopNoScan(_, _, _, _)
ParseLoopNoScan(s, input, budget, out) ==
    IF input = <<>> THEN [state |-> s, events |-> out]
    ELSE LET step == TableStep(s, Head(input))
         IN  ParseLoopNoScan(step.state, Tail(input), budget, out \o step.events)

(* The loop of parseFragment() with a text-scan shortcut that executes the  *)
(* 0x0A after scanned text without consuming it.                            *)
RECURSIVE ParseLoopRepeatsLF(_, _, _, _)
ParseLoopRepeatsLF(s, input, budget, out) ==
    IF input = <<>> THEN [state |-> s, events |-> out]
    ELSE LET cellCount == IF s = "Ground" THEN ScanForTextAscii(input, budget) ELSE 0
         IN  IF cellCount > 0
             THEN LET printed == Append(out, Event("print", SubSeq(input, 1, cellCount),
                                                   cellCount))
                      next == DropFirst(input, cellCount)
                  IN  IF next # <<>> /\ Head(next) = 10
                      THEN ParseLoopRepeatsLF(s, next, budget,
                                              Append(printed, Event("execute", <<10>>, 0)))
                      ELSE ParseLoopRepeatsLF(s, next, budget, printed)
             ELSE LET step == TableStep(s, Head(input))
                  IN  ParseLoopRepeatsLF(step.state, Tail(input), budget,
                                         out \o step.events)

(* The loop of parseFragment() over the rest of a non-empty chunk.          *)
RECURSIVE ParseLoop(_, _, _, _)
ParseLoop(s, input, budget, out) ==
    IF input = <<>> THEN [state |-> s, events |-> out]
    ELSE LET cellCount == IF s = "Ground" THEN ScanForTextAscii(input, budget) ELSE 0
         IN  IF cellCount > 0
             THEN LET printed == Append(out, Event("print", SubSeq(input, 1, cellCount),
                                                   cellCount))
                      next == DropFirst(input, cellCount)
                  IN  IF next # <<>> /\ Head(next) = 10
                      THEN ParseLoop(s, Tail(next), budget,
                                     Append(printed, Event("execute", <<10>>, 0)))
                      ELSE ParseLoop(s, next, budget, printed)
             ELSE LET step == TableStep(s, Head(input))
                  IN  ParseLoop(step.state, Tail(input), budget, out \o step.events)

(* parseFragment(_data) for a non-empty _data: the state it leaves and the  *)
(* events it emits.                                                         *)
ParseFragmentOf(s, data, budget) == ParseLoop(s, data, budget, <<>>)

----------------------------------------------------------------------------
(* Bounds and inputs of the parser specifications.                          *)
MaxInput == 4

(* ESC, '[', 'm', LF, CAN and a UTF-8 lead byte.                            *)
ChunkBytes == {27, 91, 109, 10, 24, 195}

(* The column budgets: none, one that splits a run, and a whole line.       *)
Budgets == {0, 2, 80}

AllBytes == 0..255

RECURSIVE SeqsUpTo(_, _)
SeqsUpTo(S, n) ==
    IF n = 0 THEN {<<>>}
    ELSE LET shorter == SeqsUpTo(S, n - 1)
         IN  shorter \cup {Append(sq, x) : sq \in {t \in shorter : Len(t) = n - 1}, x \in S}

NoFragment == [from |-> "Ground", data |-> <<>>, events |-> <<>>]

InitParser ==
    /\ state_ = "Ground"
    /\ maxCharCount \in Budgets
    /\ fed = <<>>
    /\ events = <<>>
    /\ frag = NoFragment
    /\ faulted = FALSE
    /\ calls = <<>>

(* parseFragment(chunk), with the whole run recorded.                       *)
ParseFragment(chunk) ==
    /\ ~faulted
    /\ chunk # <<>>
    /\ Len(fed) + Len(chunk) <= MaxInput
    /\ LET r == ParseFragmentOf(state_, chunk, maxCharCount)
       IN  /\ state_' = r.state
           /\ events' = events \o r.events
           /\ frag' = [from |-> state_, data |-> chunk, events |-> r.events]
    /\ fed' = fed \o chunk
    /\ UNCHANGED maxCharCount
    /\ UNCHANGED <<faulted, calls, lruVars, locatorVars, imageVars>>

NextParser ==
    \E chunk \in SeqsUpTo(ChunkBytes, MaxInput - Len(fed)) : ParseFragment(chunk)

(* parseFragment(chunk), with only the last call recorded.                  *)
ParseFragmentAlone(chunk) ==
    /\ ~faulted
    /\ chunk # <<>>
    /\ LET r == ParseFragmentOf(state_, chunk, maxCharCount)
       IN  /\ state_' = r.state
           /\ frag' = [from |-> state_, data |-> chunk, events |-> r.events]
    /\ UNCHANGED <<maxCharCount, fed, events>>
    /\ UNCHANGED <<faulted, calls, lruVars, locatorVars, imageVars>>

(* parseFragment() of the one-byte chunk <<b>> that the text scan leaves to *)
(* the table, with the handle() calls it makes recorded.                    *)
ParseFragmentByte(b) ==
    /\ ~faulted
    /\ ~(state_ = "Ground" /\ ScanForTextAscii(<<b>>, maxCharCount) > 0)
    /\ LET r == ParseFragmentOf(state_, <<b>>, maxCharCount)
       IN  /\ state_' = r.state
           /\ frag' = [from |-> state_, data |-> <<b>>, events |-> r.events]
    /\ calls' = TableCalls(state_, b)
    /\ UNCHANGED <<maxCharCount, fed, events, faulted>>
    /\ UNCHANGED <<lruVars, locatorVars, imageVars>>

NextParserCalls ==
    \E b \in 0..255 : ParseFragmentByte(b)

(* Every single byte, and 0x18 or 0x1A followed by one more byte.           *)
CancelBytes == {24, 26}

TableChunks ==
    {<<b>> : b \in AllBytes} \cup {<<c, b>> : c \in CancelBytes, b \in ChunkBytes}

NextParserTable ==
    \E chunk \in TableChunks : ParseFragmentAlone(chunk)


(* Bytes of ESC, CSI, DCS and OSC sequences: BEL, CAN, ESC, ' ', '1', 'P',  *)
(* '[', '\', ']' and 'm'.                                                   *)
StreamBytes == {7, 24, 27, 32, 49, 80, 91, 92, 93, 109}

MaxStream == 4

(* parseFragment() of one byte, with the whole run recorded.                *)
FeedByte(b) ==
    /\ ~faulted
    /\ Len(fed) < MaxStream
    /\ LET r == ParseFragmentOf(state_, <<b>>, maxCharCount)
       IN  /\ state_' = r.state
           /\ events' = events \o r.events
           /\ frag' = [from |-> state_, data |-> <<b>>, events |-> r.events]
    /\ fed' = Append(fed, b)
    /\ UNCHANGED maxCharCount
    /\ UNCHANGED <<faulted, calls, lruVars, locatorVars, imageVars>>

NextParserStream ==
    \E b \in StreamBytes : FeedByte(b)

(* Bytes of OSC strings and their terminators: BEL, ESC, '1', '\', ']' and  *)
(* the high byte 0xC8.                                                      *)
OscBytes == {7, 27, 49, 92, 93, 200}

MaxOscStream == 5

(* parseFragment() of one byte of an OSC stream, with the whole run         *)
(* recorded.                                                                *)
FeedOscByte(b) ==
    /\ ~faulted
    /\ Len(fed) < MaxOscStream
    /\ LET r == ParseFragmentOf(state_, <<b>>, maxCharCount)
       IN  /\ state_' = r.state
           /\ events' = events \o r.events
           /\ frag' = [from |-> state_, data |-> <<b>>, events |-> r.events]
    /\ fed' = Append(fed, b)
    /\ UNCHANGED maxCharCount
    /\ UNCHANGED <<faulted, calls, lruVars, locatorVars, imageVars>>

NextParserOsc ==
    \E b \in OscBytes : FeedOscByte(b)

(* Bytes of DCS, OSC, APC and PM strings and their terminators: BEL, CAN,   *)
(* ESC, '1', 'P', ']', '^' and '_'.                                         *)
StringBytes == {7, 24, 27, 49, 80, 93, 94, 95}

MaxStringStream == 4

(* parseFragment() of one byte of a stream of control strings, with the     *)
(* whole run recorded.                                                      *)
FeedStringByte(b) ==
    /\ ~faulted
    /\ Len(fed) < MaxStringStream
    /\ LET r == ParseFragmentOf(state_, <<b>>, maxCharCount)
       IN  /\ state_' = r.state
           /\ events' = events \o r.events
           /\ frag' = [from |-> state_, data |-> <<b>>, events |-> r.events]
    /\ fed' = Append(fed, b)
    /\ UNCHANGED maxCharCount
    /\ UNCHANGED <<faulted, calls, lruVars, locatorVars, imageVars>>

NextParserStrings ==
    \E b \in StringBytes : FeedStringByte(b)

(* parseFragment() of an empty chunk. The do-while loop reads *input++      *)
(* before it tests input != end: the read is behind the chunk, and input,   *)
(* now past end, never equals end again, so the loop goes on reading until  *)
(* a read faults or an assertion fails. The call does not return. What is   *)
(* behind the chunk is not determined by the program: overrun is the bytes  *)
(* that can be read there before the address that faults, none when the     *)
(* chunk has no address at all (std::string_view{}).                        *)
MaxOverrun == 3

(* NUL, LF, ESC and 'm'.                                                    *)
OverrunBytes == {0, 10, 27, 109}

Overruns == SeqsUpTo(OverrunBytes, MaxOverrun)

(* The loop past the end of the chunk, over the readable bytes input. In    *)
(* Ground the chunk handed to the text scan has the length end - input as   *)
(* an unsigned number, so the scan is bounded by the budget and by the      *)
(* text only: a scan that reaches the last readable byte faults, and one    *)
(* that finds text fails assert(next <= chunk.data() + chunk.size()) in a   *)
(* build with assertions and is printed in one without.                     *)
RECURSIVE OverrunLoop(_, _, _, _, _)
OverrunLoop(s, input, budget, out, asserts) ==
    IF input = <<>> THEN [state |-> s, events |-> out]
    ELSE LET cellCount == IF s = "Ground" THEN ScanForTextAscii(input, budget) ELSE 0
         IN  IF cellCount > 0
             THEN IF (cellCount = Len(input) /\ cellCount < budget) \/ asserts
                  THEN [state |-> s, events |-> out]
                  ELSE LET printed == Append(out, Event("print",
                                                        SubSeq(input, 1, cellCount),
                                                        cellCount))
                           next == DropFirst(input, cellCount)
                       IN  IF next # <<>> /\ Head(next) = 10
                           THEN OverrunLoop(s, Tail(next), budget,
                                            Append(printed, Event("execute", <<10>>, 0)),
                                            asserts)
                           ELSE OverrunLoop(s, next, budget, printed, asserts)
             ELSE LET step == TableStep(s, Head(input))
                  IN  OverrunLoop(step.state, Tail(input), budget,
                                  out \o step.events, asserts)

(* parseFragment(_data) for an empty _data, up to the fault: the first      *)
(* pass finds no text in the empty chunk and takes the byte behind it       *)
(* through the table.                                                       *)
ParseOverrun(s, overrun, budget, asserts) ==
    IF overrun = <<>> THEN [state |-> s, events |-> <<>>]
    ELSE LET step == TableStep(s, Head(overrun))
         IN  OverrunLoop(step.state, Tail(overrun), budget, step.events, asserts)

ParseFragmentEmpty(overrun, asserts) ==
    /\ ~faulted
    /\ LET r == ParseOverrun(state_, overrun, maxCharCount, asserts)
       IN  /\ state_' = r.state
           /\ frag' = [from |-> state_, data |-> <<>>, events |-> r.events]
    /\ faulted' = TRUE
    /\ UNCHANGED <<maxCharCount, fed, events, calls>>
    /\ UNCHANGED <<lruVars, locatorVars, imageVars>>

NextParserEmpty ==
    \/ \E chunk \in TableChunks : ParseFragmentAlone(chunk)
    \/ \E overrun \in Overruns, asserts \in BOOLEAN : ParseFragmentEmpty(overrun, asserts)

----------------------------------------------------------------------------
(* terminal::DECTextLocator                                                 *)

(* enum class DECLocatorEvent                                               *)
Explicit == 0
ButtonDown == 1
ButtonUp == 2

(* enum class MouseButton, used as a bit mask by updateMousePress().        *)
MouseButtonNone == 0
MouseButtonLeft == 1
MouseButtonMiddle == 2
MouseButtonRight == 4
MouseButtonWheelUp == 8
MouseButtonWheelDown == 16

(* enum class Event of DECTextLocator.cpp                                   *)
LocatorUnavailable == 0
LeftButtonDown == 2
LeftButtonUp == 3
MiddleButtonDown == 4
MiddleButtonUp == 5
RightButtonDown == 6
RightButtonUp == 7
WheelDownEvent == 8
WheelUpEvent == 9

(* enum class Page                                                          *)
PageOne == 1

(* a | b and a & ~b on unsigned values, bit by bit.                         *)
RECURSIVE BitOr(_, _)
BitOr(a, b) ==
    IF a = 0 THEN b
    ELSE IF b = 0 THEN a
    ELSE (IF a % 2 = 1 \/ b % 2 = 1 THEN 1 ELSE 0) + 2 * BitOr(a \div 2, b \div 2)

RECURSIVE BitAndNot(_, _)
BitAndNot(a, b) ==
    IF a = 0 THEN 0
    ELSE (IF a % 2 = 1 /\ b % 2 = 0 THEN 1 ELSE 0) + 2 * BitAndNot(a \div 2, b \div 2)

RECURSIVE BitAnd(_, _)
BitAnd(a, b) ==
    IF a = 0 \/ b = 0 THEN 0
    ELSE (IF a % 2 = 1 /\ b % 2 = 1 THEN 1 ELSE 0) + 2 * BitAnd(a \div 2, b \div 2)

(* makeEvent() with the codes of the two wheel buttons exchanged.           *)
makeEventWheelSwapped(button, pressed) ==
    CASE button = MouseButtonNone -> LocatorUnavailable
      [] button = MouseButtonLeft -> IF pressed THEN LeftButtonDown ELSE LeftButtonUp
      [] button = MouseButtonMiddle -> IF pressed THEN MiddleButtonDown ELSE MiddleButtonUp
      [] button = MouseButtonRight -> IF pressed THEN RightButtonDown ELSE RightButtonUp
      [] button = MouseButtonWheelUp -> WheelDownEvent
      [] button = MouseButtonWheelDown -> WheelUpEvent

(* makeEvent()                                                              *)
makeEvent(button, pressed) ==
    CASE button = MouseButtonNone -> LocatorUnavailable
      [] button = MouseButtonLeft -> IF pressed THEN LeftButtonDown ELSE LeftButtonUp
      [] button = MouseButtonMiddle -> IF pressed THEN MiddleButtonDown ELSE MiddleButtonUp
      [] button = MouseButtonRight -> IF pressed THEN RightButtonDown ELSE RightButtonUp
      [] button = MouseButtonWheelUp -> WheelUpEvent
      [] button = MouseButtonWheelDown -> WheelDownEvent

(* createReport(): the report text, as the kind of sequence ("&m" for       *)
(* ESC [ 0 & m, "&w" for ESC [ Pe ; Pb ; Pr ; Pc ; Pp & w) and the numbers  *)
(* formatted into it.                                                       *)
createReport(event, button, row, column, page) ==
    IF event = LocatorUnavailable
    THEN [final |-> "&m", params |-> <<0>>]
    ELSE [final |-> "&w", params |-> <<event, button, row, column, page>>]

(* reportButtonDownEvents(), reportButtonUpEvents()                         *)
reportButtonDownEvents == BitAnd(_selectedLocatorEvents, ButtonDown) # 0
reportButtonUpEvents == BitAnd(_selectedLocatorEvents, ButtonUp) # 0

(* Bounds and inputs of the locator specification.                          *)
MaxReports == 2
MaxCalls == 5

Buttons == {MouseButtonNone, MouseButtonLeft, MouseButtonRight, MouseButtonWheelUp}
CellPositions == {[line |-> 10, column |-> 5], [line |-> 0, column |-> 0]}
PixelPositions == {[x |-> 55, y |-> 205]}
UnitsValues == {"Cells", "Pixels"}

(* A filter rectangle with the cell (0, 0) inside and the cell (10, 5)      *)
(* outside.                                                                 *)
Rectangles == {[top |-> 0, left |-> 0, bottom |-> 5, right |-> 3]}
NoRectangle == [top |-> 0, left |-> 0, bottom |-> 0, right |-> 0]

(* History of the last call: its name, button arguments, the reporting mode *)
(* it started in, the reports pending when it started, what it returned and *)
(* the cell position it was given (the stored one for the calls that take   *)
(* none).                                                                   *)
NoCall == [op |-> "ctor", button |-> MouseButtonNone, pressed |-> FALSE,
           mode |-> "Disabled", since |-> <<>>, result |-> <<>>,
           cell |-> [line |-> 0, column |-> 0]]

Called(op, button, pressed, result) ==
    [op |-> op, button |-> button, pressed |-> pressed, mode |-> _reportingMode,
     since |-> pending, result |-> result, cell |-> _cellPosition]

InitLocator ==
    /\ _reportingMode = "Disabled"
    /\ _filterRectangle = NoRectangle
    /\ _units = "Cells"
    /\ _selectedLocatorEvents = Explicit
    /\ _cellPosition = [line |-> 0, column |-> 0]
    /\ _pixelPosition = [x |-> 0, y |-> 0]
    /\ _currentlyPressedMouseButtons = MouseButtonNone
    /\ _replyBackBufferIndex = 0
    /\ _replyBuffer = [i \in 0..1 |-> <<>>]
    /\ pending = <<>>
    /\ nreports = 0
    /\ ncalls = 0
    /\ call = NoCall

(* Every call is counted, up to MaxCalls.                                   *)
Counted ==
    /\ ncalls < MaxCalls
    /\ ncalls' = ncalls + 1

(* selectLocatorEvents()                                                    *)
selectLocatorEvents(event, enabled) ==
    /\ _selectedLocatorEvents' =
          IF enabled THEN BitOr(_selectedLocatorEvents, event)
          ELSE BitAndNot(_selectedLocatorEvents, event)
    /\ Counted
    /\ call' = Called("selectLocatorEvents", MouseButtonNone, FALSE, <<>>)
    /\ UNCHANGED <<_reportingMode, _units, _cellPosition, _pixelPosition,
                   _currentlyPressedMouseButtons, _replyBackBufferIndex,
                   _replyBuffer, pending, nreports>>
    /\ UNCHANGED <<_filterRectangle, lruVars, parserVars, imageVars>>

(* disableLocatorReporting()                                                *)
disableLocatorReporting ==
    /\ _reportingMode' = "Disabled"
    /\ Counted
    /\ call' = Called("disableLocatorReporting", MouseButtonNone, FALSE, <<>>)
    /\ UNCHANGED <<_units, _selectedLocatorEvents, _cellPosition, _pixelPosition,
                   _currentlyPressedMouseButtons, _replyBackBufferIndex,
                   _replyBuffer, pending, nreports>>
    /\ UNCHANGED <<_filterRectangle, lruVars, parserVars, imageVars>>

(* enableLocatorReporting()                                                 *)
enableLocatorReporting(u) ==
    /\ _reportingMode' = "Enabled"
    /\ _units' = u
    /\ Counted
    /\ call' = Called("enableLocatorReporting", MouseButtonNone, FALSE, <<>>)
    /\ UNCHANGED <<_selectedLocatorEvents, _cellPosition, _pixelPosition,
                   _currentlyPressedMouseButtons, _replyBackBufferIndex,
                   _replyBuffer, pending, nreports>>
    /\ UNCHANGED <<_filterRectangle, lruVars, parserVars, imageVars>>

(* enableLocatorReportingOnce()                                             *)
enableLocatorReportingOnce(u) ==
    /\ _reportingMode' = "EnabledOnce"
    /\ _units' = u
    /\ Counted
    /\ call' = Called("enableLocatorReportingOnce", MouseButtonNone, FALSE, <<>>)
    /\ UNCHANGED <<_selectedLocatorEvents, _cellPosition, _pixelPosition,
                   _currentlyPressedMouseButtons, _replyBackBufferIndex,
                   _replyBuffer, pending, nreports>>
    /\ UNCHANGED <<_filterRectangle, lruVars, parserVars, imageVars>>

(* enableFilterRectangle()                                                  *)
enableFilterRectangle(rect) ==
    /\ _reportingMode' = "FilterRectangular"
    /\ _filterRectangle' = rect
    /\ Counted
    /\ call' = Called("enableFilterRectangle", MouseButtonNone, FALSE, <<>>)
    /\ UNCHANGED <<_units, _selectedLocatorEvents, _cellPosition, _pixelPosition,
                   _currentlyPressedMouseButtons, _replyBackBufferIndex,
                   _replyBuffer, pending, nreports>>
    /\ UNCHANGED <<lruVars, parserVars, imageVars>>

(* disableFilterRectangle()                                                 *)
disableFilterRectangle ==
    /\ _reportingMode' = "Disabled"
    /\ Counted
    /\ call' = Called("disableFilterRectangle", MouseButtonNone, FALSE, <<>>)
    /\ UNCHANGED <<_units, _selectedLocatorEvents, _cellPosition, _pixelPosition,
                   _currentlyPressedMouseButtons, _replyBackBufferIndex,
                   _replyBuffer, pending, nreports>>
    /\ UNCHANGED <<_filterRectangle, lruVars, parserVars, imageVars>>

(* peekLocatorReply(): the slot at the back-buffer index.                   *)
peekLocatorReply ==
    /\ Counted
    /\ call' = Called("peekLocatorReply", MouseButtonNone, FALSE,
                      _replyBuffer[_replyBackBufferIndex])
    /\ UNCHANGED <<_reportingMode, _units, _selectedLocatorEvents, _cellPosition,
                   _pixelPosition, _currentlyPressedMouseButtons,
                   _replyBackBufferIndex, _replyBuffer, pending, nreports>>
    /\ UNCHANGED <<_filterRectangle, lruVars, parserVars, imageVars>>

(* fetchReplyAndClear(): the index moves to the other slot and the slot it  *)
(* pointed to is returned.                                                  *)
fetchResultIndex == _replyBackBufferIndex

fetchNextIndex == (_replyBackBufferIndex + 1) % 2

fetchReplyAndClear ==
    /\ _replyBackBufferIndex' = fetchNextIndex
    /\ Counted
    /\ call' = Called("fetchReplyAndClear", MouseButtonNone, FALSE,
                      _replyBuffer[fetchResultIndex])
    /\ pending' = <<>>
    /\ UNCHANGED <<_reportingMode, _units, _selectedLocatorEvents, _cellPosition,
                   _pixelPosition, _currentlyPressedMouseButtons, _replyBuffer,
                   nreports>>
    /\ UNCHANGED <<_filterRectangle, lruVars, parserVars, imageVars>>

(* updateMouseMove()                                                        *)
updateMouseMove(cellPosition, pixelPosition) ==
    /\ _cellPosition' = cellPosition
    /\ _pixelPosition' = pixelPosition
    /\ Counted
    /\ call' = [Called("updateMouseMove", MouseButtonNone, FALSE, <<>>) EXCEPT
                   !.cell = cellPosition]
    /\ UNCHANGED <<_reportingMode, _units, _selectedLocatorEvents,
                   _currentlyPressedMouseButtons, _replyBackBufferIndex,
                   _replyBuffer, pending, nreports>>
    /\ UNCHANGED <<_filterRectangle, lruVars, parserVars, imageVars>>

(* The row and column updateMousePress() reports, per _units.               *)
ReportedRow == IF _units = "Cells" THEN _cellPosition.line ELSE _pixelPosition.y
ReportedColumn == IF _units = "Cells" THEN _cellPosition.column ELSE _pixelPosition.x

(* updateMousePress(): the pressed-buttons mask is updated and a report is  *)
(* appended to the slot at the back-buffer index.                           *)
updateMousePress(button, buttonPressed) ==
    /\ Counted
    /\ nreports < MaxReports
    /\ _currentlyPressedMouseButtons' =
          IF buttonPressed THEN BitOr(_currentlyPressedMouseButtons, button)
          ELSE BitAndNot(_currentlyPressedMouseButtons, button)
    /\ LET report == createReport(makeEvent(button, buttonPressed), button,
                                  ReportedRow, ReportedColumn, PageOne)
       IN  /\ _replyBuffer' = [_replyBuffer EXCEPT
                                  ![_replyBackBufferIndex] = Append(@, report)]
           /\ pending' = Append(pending, report)
           /\ call' = Called("updateMousePress", button, buttonPressed, <<>>)
    /\ nreports' = nreports + 1
    /\ UNCHANGED <<_reportingMode, _units, _selectedLocatorEvents, _cellPosition,
                   _pixelPosition, _replyBackBufferIndex>>
    /\ UNCHANGED <<_filterRectangle, lruVars, parserVars, imageVars>>

(* The switch of update() with a Disabled case that enables reporting.      *)
updateModeEnables ==
    IF _reportingMode = "EnabledOnce" THEN "Disabled"
    ELSE IF _reportingMode = "Disabled" THEN "Enabled"
    ELSE _reportingMode

(* update(): the switch over _reportingMode; only EnabledOnce has a body.   *)
updateMode == IF _reportingMode = "EnabledOnce" THEN "Disabled" ELSE _reportingMode

update(button, buttonPressed, cellPosition, pixelPosition) ==
    /\ _reportingMode' = updateMode
    /\ Counted
    /\ call' = [Called("update", button, buttonPressed, <<>>) EXCEPT
                   !.cell = cellPosition]
    /\ UNCHANGED <<_units, _selectedLocatorEvents, _cellPosition, _pixelPosition,
                   _currentlyPressedMouseButtons, _replyBackBufferIndex,
                   _replyBuffer, pending, nreports>>
    /\ UNCHANGED <<_filterRectangle, lruVars, parserVars, imageVars>>

NextLocator ==
    \/ \E e \in {Explicit, ButtonDown, ButtonUp}, on \in BOOLEAN : selectLocatorEvents(e, on)
    \/ disableLocatorReporting
    \/ \E u \in UnitsValues : enableLocatorReporting(u)
    \/ \E u \in UnitsValues : enableLocatorReportingOnce(u)
    \/ \E r \in Rectangles : enableFilterRectangle(r)
    \/ disableFilterRectangle
    \/ peekLocatorReply
    \/ fetchReplyAndClear
    \/ \E c \in CellPositions, p \in PixelPositions : updateMouseMove(c, p)
    \/ \E b \in Buttons, on \in BOOLEAN : updateMousePress(b, on)
    \/ \E b \in Buttons, on \in BOOLEAN, c \in CellPositions, p \in PixelPositions :
          update(b, on, c, p)

----------------------------------------------------------------------------
(* terminal::ImagePool with Image, RasterizedImage and ImageFragment        *)
(* (Image.h). Images and rasterized images are shared objects: a use count  *)
(* per object counts the shared pointers to it, and the object is destroyed *)
(* when its count reaches zero.                                             *)

(* Bounds and inputs of the image specification.                            *)
MaxImages == 2
NameCapacity == 1

ImageIds == 1..MaxImages

(* The slots that rasterized images are created in, and the names that are  *)
(* linked.                                                                  *)
RasterIds == {1, 2}
Names == {"a", "b"}

(* The numbers of handles that callers hold to one image, and of fragments  *)
(* placed from one rasterized image.                                        *)
ShareCounts == 0..2

NoRaster == [image |-> 0, use |-> 0, handles |-> 0, fragments |-> 0]

InitImage ==
    /\ nextImageId_ = 1
    /\ imageUse = [i \in ImageIds |-> 0]
    /\ imageHandles = [i \in ImageIds |-> 0]
    /\ rasters = [r \in RasterIds |-> NoRaster]
    /\ imageNameToImageCache_ = <<>>
    /\ removed = [i \in ImageIds |-> 0]

(* The use counts and the removal counts, as one value that the operators   *)
(* below transform.                                                         *)
Counts == [use |-> imageUse, removed |-> removed]

(* A shared pointer to image i is copied.                                   *)
AddImageRef(c, i) == [c EXCEPT !.use[i] = @ + 1]

(* A shared pointer to image i is destroyed; with the last one the image is *)
(* destroyed, and its destructor invokes the removal callback.              *)
DropImageRef(c, i) ==
    [use |-> [c.use EXCEPT ![i] = @ - 1],
     removed |-> IF c.use[i] = 1 THEN [c.removed EXCEPT ![i] = @ + 1] ELSE c.removed]

(* RasterizedImage() that keeps no shared pointer to its image.             *)
RasterizedImageRefsNone(c, i) == c

(* RasterizedImage(): image_ holds a shared pointer to the image.           *)
RasterizedImageRefs(c, i) == AddImageRef(c, i)

(* ImageFragment(): rasterizedImage_ holds a shared pointer to the          *)
(* rasterized image.                                                        *)
ImageFragmentRefs(raster) ==
    [raster EXCEPT !.use = @ + 1, !.fragments = @ + 1]

(* A shared pointer to the rasterized image in slot r is destroyed; with    *)
(* the last one the RasterizedImage and its member image_ are destroyed.    *)
DropRasterRef(c, r) ==
    IF rasters[r].use = 1 THEN DropImageRef(c, rasters[r].image) ELSE c

SetCounts(c) ==
    /\ imageUse' = c.use
    /\ removed' = c.removed

(* ImagePool::create(): the next id is assigned and the caller gets the     *)
(* first shared handle.                                                     *)
create ==
    /\ nextImageId_ <= MaxImages
    /\ nextImageId_' = nextImageId_ + 1
    /\ imageUse' = [imageUse EXCEPT ![nextImageId_] = 1]
    /\ imageHandles' = [imageHandles EXCEPT ![nextImageId_] = 1]
    /\ UNCHANGED <<rasters, imageNameToImageCache_, removed>>
    /\ UNCHANGED <<lruVars, parserVars, locatorVars>>

(* A caller destroys one of its handles to image i.                         *)
dropImageHandle(i) ==
    /\ imageHandles[i] > 0
    /\ imageHandles' = [imageHandles EXCEPT ![i] = @ - 1]
    /\ SetCounts(DropImageRef(Counts, i))
    /\ UNCHANGED <<nextImageId_, rasters, imageNameToImageCache_>>
    /\ UNCHANGED <<lruVars, parserVars, locatorVars>>

FreeRasters == {r \in RasterIds : rasters[r].image = 0}

(* ImagePool::rasterize(): a RasterizedImage of the caller's image is made  *)
(* and the caller gets the first shared handle to it.                       *)
rasterize(i) ==
    /\ imageHandles[i] > 0
    /\ FreeRasters # {}
    /\ LET r == CHOOSE x \in FreeRasters : \A y \in FreeRasters : x <= y
       IN  rasters' = [rasters EXCEPT ![r] = [image |-> i, use |-> 1, handles |-> 1,
                                               fragments |-> 0]]
    /\ SetCounts(RasterizedImageRefs(Counts, i))
    /\ UNCHANGED <<nextImageId_, imageHandles, imageNameToImageCache_>>
    /\ UNCHANGED <<lruVars, parserVars, locatorVars>>

(* A caller destroys one of its handles to the rasterized image in slot r.  *)
dropRasterHandle(r) ==
    /\ rasters[r].handles > 0
    /\ rasters' = [rasters EXCEPT ![r].handles = @ - 1, ![r].use = @ - 1]
    /\ SetCounts(DropRasterRef(Counts, r))
    /\ UNCHANGED <<nextImageId_, imageHandles, imageNameToImageCache_>>
    /\ UNCHANGED <<lruVars, parserVars, locatorVars>>

(* An ImageFragment of the rasterized image in slot r is constructed from   *)
(* a caller's handle.                                                       *)
placeFragment(r) ==
    /\ rasters[r].handles > 0
    /\ rasters[r].fragments + 1 \in ShareCounts
    /\ rasters' = [rasters EXCEPT ![r] = ImageFragmentRefs(@)]
    /\ UNCHANGED <<nextImageId_, imageUse, imageHandles, imageNameToImageCache_,
                   removed>>
    /\ UNCHANGED <<lruVars, parserVars, locatorVars>>

(* An ImageFragment of the rasterized image in slot r is destroyed.         *)
dropFragment(r) ==
    /\ rasters[r].fragments > 0
    /\ rasters' = [rasters EXCEPT ![r].fragments = @ - 1, ![r].use = @ - 1]
    /\ SetCounts(DropRasterRef(Counts, r))
    /\ UNCHANGED <<nextImageId_, imageHandles, imageNameToImageCache_>>
    /\ UNCHANGED <<lruVars, parserVars, locatorVars>>

(* The name cache: a bounded sequence of bindings, most recently used       *)
(* first.                                                                   *)
Binding(name, i) == [name |-> name, image |-> i]

Linked(name) ==
    \E k \in 1..Len(imageNameToImageCache_) : imageNameToImageCache_[k].name = name

IndexOfName(name) ==
    CHOOSE k \in 1..Len(imageNameToImageCache_) : imageNameToImageCache_[k].name = name

RemoveAt(sq, k) == SubSeq(sq, 1, k - 1) \o SubSeq(sq, k + 1, Len(sq))

(* ImagePool::link(): the name is bound to a copy of the caller's handle;   *)
(* a binding of the same name is replaced, and in a full cache the least    *)
(* recently used binding is evicted. The handle of a replaced or evicted    *)
(* binding is destroyed.                                                    *)
link(name, i) ==
    /\ imageHandles[i] > 0
    /\ LET cache == imageNameToImageCache_
           linked == AddImageRef(Counts, i)
       IN  IF Linked(name)
           THEN /\ imageNameToImageCache_' =
                      <<Binding(name, i)>> \o RemoveAt(cache, IndexOfName(name))
                /\ SetCounts(DropImageRef(linked, cache[IndexOfName(name)].image))
           ELSE IF Len(cache) = NameCapacity
           THEN /\ imageNameToImageCache_' =
                      <<Binding(name, i)>> \o SubSeq(cache, 1, Len(cache) - 1)
                /\ SetCounts(DropImageRef(linked, cache[Len(cache)].image))
           ELSE /\ imageNameToImageCache_' = <<Binding(name, i)>> \o cache
                /\ SetCounts(linked)
    /\ UNCHANGED <<nextImageId_, imageHandles, rasters>>
    /\ UNCHANGED <<lruVars, parserVars, locatorVars>>

(* ImagePool::unlink(): the binding of the name and its handle are          *)
(* destroyed.                                                               *)
unlink(name) ==
    /\ Linked(name)
    /\ imageNameToImageCache_' = RemoveAt(imageNameToImageCache_, IndexOfName(name))
    /\ SetCounts(DropImageRef(Counts, imageNameToImageCache_[IndexOfName(name)].image))
    /\ UNCHANGED <<nextImageId_, imageHandles, rasters>>
    /\ UNCHANGED <<lruVars, parserVars, locatorVars>>

(* ImagePool::findImageByName() const: the caller gets a copy of the handle *)
(* bound to the name; the pool is not changed.                              *)
findImageByName(name) ==
    /\ Linked(name)
    /\ LET i == imageNameToImageCache_[IndexOfName(name)].image
       IN  /\ imageHandles[i] + 1 \in ShareCounts
           /\ imageHandles' = [imageHandles EXCEPT ![i] = @ + 1]
           /\ SetCounts(AddImageRef(Counts, i))
    /\ UNCHANGED <<nextImageId_, rasters, imageNameToImageCache_>>
    /\ UNCHANGED <<lruVars, parserVars, locatorVars>>

(* The handles of the bindings of a name cache are destroyed, one by one.    *)
RECURSIVE DropLinks(_, _)
DropLinks(c, cache) ==
    IF cache = <<>> THEN c
    ELSE DropLinks(DropImageRef(c, Head(cache).image), Tail(cache))

(* ImagePool::clear(): the name cache is emptied; every binding and its     *)
(* handle are destroyed.                                                    *)
clear ==
    /\ imageNameToImageCache_' = <<>>
    /\ SetCounts(DropLinks(Counts, imageNameToImageCache_))
    /\ UNCHANGED <<nextImageId_, imageHandles, rasters>>
    /\ UNCHANGED <<lruVars, parserVars, locatorVars>>

NextImage ==
    \/ create
    \/ \E i \in ImageIds : dropImageHandle(i)
    \/ \E i \in ImageIds : rasterize(i)
    \/ \E r \in RasterIds : dropRasterHandle(r)
    \/ \E r \in RasterIds : placeFragment(r)
    \/ \E r \in RasterIds : dropFragment(r)
    \/ \E n \in Names, i \in ImageIds : link(n, i)
    \/ \E n \in Names : unlink(n)
    \/ \E n \in Names : findImageByName(n)
    \/ clear

(* Every value of enum class MouseButton.                                   *)
AllButtons == {MouseButtonNone, MouseButtonLeft, MouseButtonMiddle, MouseButtonRight,
               MouseButtonWheelUp, MouseButtonWheelDown}

(* Button presses and releases of every button, with the units and the      *)
(* position varied.                                                         *)
NextLocatorPress ==
    \/ \E u \in UnitsValues : enableLocatorReporting(u)
    \/ \E c \in CellPositions, p \in PixelPositions : updateMouseMove(c, p)
    \/ \E b \in AllButtons, on \in BOOLEAN : updateMousePress(b, on)

----------------------------------------------------------------------------
(* The specifications. Each one runs one component; the others stay as      *)
(* constructed.                                                             *)
IdleLRU ==
    /\ capacity_ = 1
    /\ InitLRU

IdleParser ==
    /\ maxCharCount = 0
    /\ InitParser

InitSpecLRU == InitLRU /\ IdleParser /\ InitLocator /\ InitImage

InitSpecParser == InitParser /\ IdleLRU /\ InitLocator /\ InitImage

InitSpecLocator == InitLocator /\ IdleLRU /\ IdleParser /\ InitImage

InitSpecImage == InitImage /\ IdleLRU /\ IdleParser /\ InitLocator

SpecLRU == InitSpecLRU /\ [][NextLRU]_vars

SpecLRUContains == InitSpecLRU /\ [][NextLRUContains]_vars

SpecLRUClear == InitSpecLRU /\ [][NextLRUClear]_vars

SpecLRUOps == InitSpecLRU /\ [][NextLRUOps]_vars

SpecParser == InitSpecParser /\ [][NextParser]_vars

SpecParserTable == InitSpecParser /\ [][NextParserTable]_vars

SpecParserStream == InitSpecParser /\ [][NextParserStream]_vars

SpecParserOsc == InitSpecParser /\ [][NextParserOsc]_vars

SpecParserStrings == InitSpecParser /\ [][NextParserStrings]_vars

SpecParserEmpty == InitSpecParser /\ [][NextParserEmpty]_vars

SpecParserCalls == InitSpecParser /\ [][NextParserCalls]_vars

SpecLocator == InitSpecLocator /\ [][NextLocator]_vars

SpecLocatorPress == InitSpecLocator /\ [][NextLocatorPress]_vars

SpecImage == InitSpecImage /\ [][NextImage]_vars

----------------------------------------------------------------------------
(* Properties of the parser.                                                *)

(* The events with every run of adjacent print events merged into one: the  *)
(* texts concatenated, the cell counts added.                               *)
RECURSIVE MergePrints(_)
MergePrints(evs) ==
    IF Len(evs) < 2 THEN evs
    ELSE LET rest == MergePrints(Tail(evs))
         IN  IF Head(evs).ev = "print" /\ Head(rest).ev = "print"
             THEN <<Event("print", Head(evs).text \o Head(rest).text,
                          Head(evs).cells + Head(rest).cells)>> \o Tail(rest)
             ELSE <<Head(evs)>> \o rest

(* The bytes fed so far, parsed as a single chunk from Ground.              *)
WholeInput == ParseFragmentOf("Ground", fed, maxCharCount)

(* C2: however the input is split into chunks, the listener events, with   *)
(* the text and cell count of each print, are those of the input fed as a  *)
(* single chunk.                                                           *)
C2_ChunkingIdentical ==
    fed # <<>> => (events = WholeInput.events /\ state_ = WholeInput.state)

(* The states of an ESC or CSI sequence in progress.                       *)
SequenceStates == {"Escape", "EscapeIntermediate", "CSI_Entry", "CSI_Param",
                   "CSI_Intermediate", "CSI_Ignore"}

(* C5: 0x18 or 0x1A received in a state of an ESC or CSI sequence emits    *)
(* nothing (no dispatchCSI, no dispatchESC) and leads to Ground; the bytes *)
(* after it are processed exactly as fresh Ground input.                   *)
C5_Cancel ==
    (frag.data # <<>> /\ frag.from \in SequenceStates /\ Head(frag.data) \in CancelBytes)
      => LET after == Tail(frag.data)
         IN  IF after = <<>>
             THEN frag.events = <<>> /\ state_ = "Ground"
             ELSE /\ frag.events = ParseFragmentOf("Ground", after, maxCharCount).events
                  /\ state_ = ParseFragmentOf("Ground", after, maxCharCount).state

(* ESC [ 3 1 was cancelled by 0x18 and the following 'm' was printed.      *)
C5_Witness ==
    /\ frag.from = "CSI_Param"
    /\ frag.data = <<24, 109>>
    /\ frag.events = <<Event("print", <<109>>, 1)>>
    /\ state_ = "Ground"

(* C17: from each of the 16 states, 0x18 and 0x1A lead to Ground and 0x1B  *)
(* leads to Escape, emitting the exit action of the state that is left     *)
(* and, for 0x1B, the entry action clear of Escape; the parser is always   *)
(* in one of the 16 states.                                                *)
C17_AnywhereTransitions ==
    /\ state_ \in States
    /\ (Len(frag.data) = 1 /\ frag.data[1] \in {24, 26, 27})
          => /\ state_ = (IF frag.data[1] = 27 THEN "Escape" ELSE "Ground")
             /\ frag.events =
                   Handle(ExitEventsOf(frag.from), frag.data[1])
                     \o (IF frag.data[1] = 27 THEN <<Event("clear", <<>>, 0)>>
                         ELSE <<>>)

(* ESC was received in the last of the states, IgnoreUntilST.              *)
C17_Witness ==
    /\ frag.from = "IgnoreUntilST"
    /\ frag.data = <<27>>
    /\ state_ = "Escape"
    /\ frag.events = <<Event("clear", <<>>, 0)>>

(* The place of an action class in a table-driven step.                    *)
ClassRank(class) ==
    CASE class = "Leave" -> 1
      [] class = "Transition" -> 2
      [] class = "Enter" -> 3
      [] class = "Event" -> 0

CallsOfClass(class) == {i \in 1..Len(calls) : calls[i].class = class}

(* C18: for a byte handled by the table that has a transition, the exit    *)
(* action of the current state, the event action of (state, byte) and the  *)
(* entry action of the new state are handled once each and in this order,  *)
(* the first two with the parser in the old state and the third with the   *)
(* parser in the new state, where it stays; for a byte with an event       *)
(* action only, that one action is handled and the state is kept. The      *)
(* listener receives the events of these calls in their order.             *)
C18_EventOrder ==
    frag.data # <<>> =>
        LET b == frag.data[1]
            t == TransitionsOf(frag.from, b)
            a == EventsOf(frag.from, b)
        IN  /\ t # "Undefined" =>
                  /\ \A class \in {"Leave", "Transition", "Enter"} :
                        Cardinality(CallsOfClass(class)) = 1
                  /\ CallsOfClass("Event") = {}
                  /\ \A i, j \in 1..Len(calls) :
                        i < j => ClassRank(calls[i].class) < ClassRank(calls[j].class)
                  /\ \A i \in 1..Len(calls) :
                        /\ calls[i].class = "Leave" =>
                              /\ calls[i].action = ExitEventsOf(frag.from)
                              /\ calls[i].state = frag.from
                        /\ calls[i].class = "Transition" =>
                              /\ calls[i].action = a
                              /\ calls[i].state = frag.from
                        /\ calls[i].class = "Enter" =>
                              /\ calls[i].action = EntryEventsOf(t)
                              /\ calls[i].state = t
                  /\ state_ = t
            /\ (t = "Undefined" /\ a # "Undefined") =>
                  /\ calls = <<Call("Event", a, frag.from)>>
                  /\ state_ = frag.from
            /\ (t # "Undefined" \/ a # "Undefined") =>
                  frag.events = HandleAll(calls, b)

(* '1' in CSI_Entry: the transition to CSI_Param carries ParamDigit; the   *)
(* calls for the exit and the event action find the parser in CSI_Entry,   *)
(* the call for the entry action finds it in CSI_Param.                    *)
C18_Witness ==
    /\ frag.from = "CSI_Entry"
    /\ frag.data = <<49>>
    /\ state_ = "CSI_Param"
    /\ calls = <<Call("Leave", "Undefined", "CSI_Entry"),
                 Call("Transition", "ParamDigit", "CSI_Entry"),
                 Call("Enter", "Undefined", "CSI_Param")>>
    /\ frag.events = <<Event("paramDigit", <<49>>, 0)>>

(* Scan of an event sequence: `armed` says that a clear has been seen and  *)
(* no dispatchCSI or dispatchESC since.                                    *)
RECURSIVE DispatchOk(_, _)
DispatchOk(evs, armed) ==
    IF evs = <<>> THEN TRUE
    ELSE IF Head(evs).ev = "clear" THEN DispatchOk(Tail(evs), TRUE)
    ELSE IF Head(evs).ev \in {"dispatchCSI", "dispatchESC"}
    THEN armed /\ DispatchOk(Tail(evs), FALSE)
    ELSE DispatchOk(Tail(evs), armed)

(* C19: in the events of any byte sequence every dispatchCSI and           *)
(* dispatchESC is preceded by a clear with no other dispatch in between,   *)
(* so that at most one dispatch follows each clear.                        *)
C19_DispatchWellFormed == DispatchOk(events, FALSE)

Dispatches == {i \in 1..Len(events) : events[i].ev \in {"dispatchCSI", "dispatchESC"}}

(* Two sequences were dispatched in one run.                               *)
C19_Witness ==
    /\ Cardinality(Dispatches) = 2
    /\ state_ = "Ground"

(* Scan of an event sequence for OSC strings: "open" after a startOSC that *)
(* has no dispatchOSC yet, "closed" otherwise, "bad" when a startOSC comes *)
(* while open or a putOSC or dispatchOSC while closed.                     *)
RECURSIVE OscScan(_, _)
OscScan(evs, st) ==
    IF evs = <<>> \/ st = "bad" THEN st
    ELSE IF Head(evs).ev = "startOSC"
    THEN OscScan(Tail(evs), IF st = "closed" THEN "open" ELSE "bad")
    ELSE IF Head(evs).ev = "dispatchOSC"
    THEN OscScan(Tail(evs), IF st = "open" THEN "closed" ELSE "bad")
    ELSE IF Head(evs).ev = "putOSC"
    THEN OscScan(Tail(evs), IF st = "open" THEN "open" ELSE "bad")
    ELSE OscScan(Tail(evs), st)

(* C20: in the events of any byte sequence startOSC and dispatchOSC        *)
(* alternate, beginning with startOSC, putOSC occurs only between a        *)
(* startOSC and its dispatchOSC, and a startOSC is without its dispatchOSC *)
(* only while the parser is still in OSC_String.                           *)
C20_OscMatching ==
    OscScan(events, "closed") = (IF state_ = "OSC_String" THEN "open" ELSE "closed")

(* ESC ] 1 BEL: an OSC string with one byte, ended by BEL.                 *)
C20_Witness ==
    /\ fed = <<27, 93, 49, 7>>
    /\ state_ = "Ground"
    /\ events = <<Event("clear", <<>>, 0), Event("startOSC", <<>>, 0),
                  Event("putOSC", <<49>>, 0), Event("dispatchOSC", <<>>, 0)>>

(* The bytes that OSC_String hands to putOSC.                               *)
OscPutByte(b) == InRange(b, 32, 255)

(* Whether sq is ESC ] followed by bytes for putOSC and the terminator.     *)
IsOscString(sq, terminator) ==
    /\ Len(sq) >= 2 + Len(terminator)
    /\ SubSeq(sq, 1, 2) = <<27, 93>>
    /\ SubSeq(sq, Len(sq) - Len(terminator) + 1, Len(sq)) = terminator
    /\ \A k \in 3..(Len(sq) - Len(terminator)) : OscPutByte(sq[k])

OscPayload(sq, terminator) == SubSeq(sq, 3, Len(sq) - Len(terminator))

(* The events of an OSC string with the given payload; the ESC of ESC \     *)
(* enters Escape, which clears.                                             *)
OscEvents(payload, terminator) ==
    <<Event("startOSC", <<>>, 0)>>
       \o [k \in 1..Len(payload) |-> Event("putOSC", <<payload[k]>>, 0)]
       \o <<Event("dispatchOSC", <<>>, 0)>>
       \o (IF terminator = <<27, 92>> THEN <<Event("clear", <<>>, 0)>> ELSE <<>>)

LastEvents(n) == SubSeq(events, Len(events) - n + 1, Len(events))

(* C21: an OSC string opened by ESC ] and ended by BEL or by ESC \ yields   *)
(* exactly one dispatchOSC, after the putOSC of exactly the bytes received  *)
(* before the terminator, and leaves the parser in Ground; the 0x5C after   *)
(* the ESC emits no event.                                                  *)
C21_OscTerminators ==
    \A i \in 1..Len(fed) : \A terminator \in {<<7>>, <<27, 92>>} :
        IsOscString(SubSeq(fed, i, Len(fed)), terminator)
           => LET expected == OscEvents(OscPayload(SubSeq(fed, i, Len(fed)), terminator),
                                        terminator)
              IN  /\ Len(events) >= Len(expected)
                  /\ LastEvents(Len(expected)) = expected
                  /\ state_ = "Ground"
                  /\ terminator = <<27, 92>> => frag.events = <<>>

C21_Witness ==
    /\ fed = <<27, 93, 49, 27, 92>>
    /\ state_ = "Ground"
    /\ events = <<Event("clear", <<>>, 0), Event("startOSC", <<>>, 0),
                  Event("putOSC", <<49>>, 0), Event("dispatchOSC", <<>>, 0),
                  Event("clear", <<>>, 0)>>

(* The string states and the listener method each one forwards bytes to.    *)
StringStates == {"DCS_PassThrough", "OSC_String", "APC_String", "PM_String"}

PutEventOf(s) ==
    CASE s = "DCS_PassThrough" -> "put"
      [] s = "OSC_String" -> "putOSC"
      [] s = "APC_String" -> "putAPC"
      [] s = "PM_String" -> "putPM"

HighBytes == 128..255

(* C22: in each string state (DCS_PassThrough, OSC_String, APC_String,      *)
(* PM_String) every byte in 0x80..0xFF is forwarded by the put event of     *)
(* that state with the byte unchanged, without a change of state and        *)
(* without an error event.                                                  *)
C22_HighBytesInStrings ==
    (/\ frag.from \in StringStates
     /\ Len(frag.data) = 1
     /\ frag.data[1] \in HighBytes)
       => /\ frag.events = <<Event(PutEventOf(frag.from), frag.data, 0)>>
          /\ state_ = frag.from

(* The C1 control range.                                                    *)
C1Bytes == 128..159

(* The listener calls that only entry and exit actions make.                *)
EntryExitEvents == {"clear", "hook", "unhook", "startOSC", "dispatchOSC", "startAPC",
                    "dispatchAPC", "startPM", "dispatchPM"}

(* C23: in Ground every byte in 0x80..0xFF, the C1 range included, gives    *)
(* print and leaves the state Ground; in no state does a byte in 0x80..0x9F *)
(* change the state or start or end a control sequence or string.           *)
C23_HighBytesAndC1 ==
    (Len(frag.data) = 1 /\ frag.data[1] \in HighBytes)
       => /\ frag.from = "Ground"
                => /\ frag.events = <<Event("print", frag.data, 0)>>
                   /\ state_ = "Ground"
          /\ frag.data[1] \in C1Bytes
                => /\ state_ = frag.from
                   /\ \A i \in 1..Len(frag.events) :
                         frag.events[i].ev \notin EntryExitEvents

C23_Witness ==
    /\ frag.from = "OSC_String"
    /\ frag.data = <<156>>
    /\ frag.events = <<Event("putOSC", <<156>>, 0)>>
    /\ state_ = "OSC_String"

(* Whether every byte of sq is text for the ASCII scan.                    *)
IsAsciiRun(sq) == \A i \in 1..Len(sq) : IsAsciiText(sq[i])

(* C24: in Ground, for a chunk that is a run of n >= 1 printable ASCII      *)
(* bytes with n within the column budget, parseFragment emits exactly one   *)
(* print(text, cell_count) with the whole run as text and n as cell count,  *)
(* emits nothing else, and stays in Ground.                                 *)
C24_FastPath ==
    (/\ frag.from = "Ground"
     /\ Len(frag.data) >= 1
     /\ Len(frag.data) <= maxCharCount
     /\ IsAsciiRun(frag.data))
       => /\ frag.events = <<Event("print", frag.data, Len(frag.data))>>
          /\ state_ = "Ground"

C24_Witness ==
    /\ frag.from = "Ground"
    /\ frag.data = <<91, 109>>
    /\ maxCharCount = 2
    /\ frag.events = <<Event("print", <<91, 109>>, 2)>>
    /\ state_ = "Ground"

(* Whether the table has neither a transition nor an event for (s, b).      *)
UnknownPair(s, b) ==
    TransitionsOf(s, b) = "Undefined" /\ EventsOf(s, b) = "Undefined"

(* C25: for a (state, byte) pair with neither a transition nor an event the *)
(* parser emits exactly one error event, drops the byte, leaves the state   *)
(* unchanged and goes on with the remaining bytes of the chunk as it would  *)
(* have from that state.                                                    *)
C25_MalformedInput ==
    \A i \in 1..Len(frag.data) :
        LET before == ParseFragmentOf(frag.from, SubSeq(frag.data, 1, i - 1),
                                      maxCharCount)
            after == ParseFragmentOf(before.state, DropFirst(frag.data, i),
                                     maxCharCount)
        IN  UnknownPair(before.state, frag.data[i])
               => /\ frag.events = before.events
                                      \o <<Event("error", <<frag.data[i]>>, 0)>>
                                      \o after.events
                  /\ state_ = after.state

C25_Witness ==
    /\ frag.from = "Ground"
    /\ frag.data = <<27, 195, 91, 109>>
    /\ frag.events = <<Event("clear", <<>>, 0), Event("error", <<195>>, 0),
                       Event("clear", <<>>, 0), Event("dispatchCSI", <<109>>, 0)>>
    /\ state_ = "Ground"

(* The states in which the header of a DCS sequence is parsed.              *)
DcsHeaderStates == {"DCS_Entry", "DCS_Param", "DCS_Intermediate"}

IntermediateBytes == 32..47

(* C31: every intermediate byte 0x20..0x2F received in DCS_Entry, DCS_Param *)
(* or DCS_Intermediate is reported with collect(byte), and the parser goes  *)
(* on in DCS_Intermediate, so that the byte is collected before the hook.   *)
C31_DcsIntermediates ==
    (/\ frag.from \in DcsHeaderStates
     /\ Len(frag.data) = 1
     /\ frag.data[1] \in IntermediateBytes)
       => /\ frag.events = <<Event("collect", frag.data, 0)>>
          /\ state_ = "DCS_Intermediate"

(* The listener methods that open and close the string of each string       *)
(* state.                                                                   *)
StartEventOf(s) ==
    CASE s = "DCS_PassThrough" -> "hook"
      [] s = "OSC_String" -> "startOSC"
      [] s = "APC_String" -> "startAPC"
      [] s = "PM_String" -> "startPM"

EndEventOf(s) ==
    CASE s = "DCS_PassThrough" -> "unhook"
      [] s = "OSC_String" -> "dispatchOSC"
      [] s = "APC_String" -> "dispatchAPC"
      [] s = "PM_String" -> "dispatchPM"

(* Scan of an event sequence for the strings of state s: "open" after a     *)
(* start without its end, "closed" otherwise, "bad" when a start comes      *)
(* while open or a put or an end while closed.                              *)
RECURSIVE BracketScan(_, _, _)
BracketScan(evs, st, s) ==
    IF evs = <<>> \/ st = "bad" THEN st
    ELSE IF Head(evs).ev = StartEventOf(s)
    THEN BracketScan(Tail(evs), IF st = "closed" THEN "open" ELSE "bad", s)
    ELSE IF Head(evs).ev = EndEventOf(s)
    THEN BracketScan(Tail(evs), IF st = "open" THEN "closed" ELSE "bad", s)
    ELSE IF Head(evs).ev = PutEventOf(s)
    THEN BracketScan(Tail(evs), IF st = "open" THEN "open" ELSE "bad", s)
    ELSE BracketScan(Tail(evs), st, s)

StringTerminators == {7, 24, 26, 27}

(* C34: in the events of any byte sequence every put, putOSC, putAPC and    *)
(* putPM lies between the start of its string and the matching end, every   *)
(* start has exactly one end before the next start of its kind, and the     *)
(* byte that ends a string (BEL, ESC, 0x18, 0x1A) is not delivered as a put *)
(* after the end event.                                                     *)
C34_StringBracketing ==
    /\ \A s \in StringStates : BracketScan(events, "closed", s) # "bad"
    /\ (/\ frag.from \in StringStates
        /\ Len(frag.data) = 1
        /\ frag.data[1] \in StringTerminators
        /\ state_ # frag.from)
          => \A i \in 1..Len(frag.events) :
                frag.events[i].ev # PutEventOf(frag.from)

(* ESC ^ 1 BEL: the PM string is opened, the byte 1 is put and BEL ends    *)
(* the string without being put.                                           *)
C34_Witness ==
    /\ fed = <<27, 94, 49, 7>>
    /\ state_ = "Ground"
    /\ events = <<Event("clear", <<>>, 0), Event("startPM", <<>>, 0),
                  Event("putPM", <<49>>, 0), Event("dispatchPM", <<>>, 0)>>

IgnoreStates == {"DCS_Ignore", "IgnoreUntilST"}

(* C35: in DCS_Ignore and in IgnoreUntilST every byte other than 0x18, 0x1A *)
(* and 0x1B leaves the state as it is and emits no listener event, neither  *)
(* a print, a put or a dispatch nor an error.                               *)
C35_IgnoreStatesSilent ==
    (/\ frag.from \in IgnoreStates
     /\ Len(frag.data) = 1
     /\ frag.data[1] \notin {24, 26, 27})
       => /\ frag.events = <<>>
          /\ state_ = frag.from

(* Per-byte table dispatch of input from state s: no text scan, every byte  *)
(* takes one table step.                                                    *)
RECURSIVE TableDispatch(_, _, _)
TableDispatch(s, input, out) ==
    IF input = <<>> THEN [state |-> s, events |-> out]
    ELSE LET step == TableStep(s, Head(input))
         IN  TableDispatch(step.state, Tail(input), out \o step.events)

(* The events with each print(char) of the table counted as the one cell of *)
(* its character, and then adjacent prints merged.                          *)
PrintCells(evs) ==
    [i \in 1..Len(evs) |->
        IF evs[i].ev = "print" /\ evs[i].cells = 0
        THEN [evs[i] EXCEPT !.cells = Len(evs[i].text)]
        ELSE evs[i]]

MergedText(evs) == MergePrints(PrintCells(evs))

(* C36: for every chunk, in every state, the events of parseFragment with   *)
(* the Ground text scan and its 0x0A shortcut are the events of per-byte    *)
(* table dispatch once adjacent prints are merged (texts concatenated, cell *)
(* counts added), and the parser ends in the same state.                    *)
C36_FastPathEquivalence ==
    frag.data # <<>> =>
        LET byTable == TableDispatch(frag.from, frag.data, <<>>)
        IN  /\ MergedText(frag.events) = MergedText(byTable.events)
            /\ state_ = byTable.state

(* Text, a line feed taken by the shortcut, text again and an ESC.          *)
C36_Witness ==
    /\ frag.from = "Ground"
    /\ frag.data = <<109, 10, 109, 27>>
    /\ maxCharCount = 80
    /\ frag.events = <<Event("print", <<109>>, 1), Event("execute", <<10>>, 0),
                       Event("print", <<109>>, 1), Event("clear", <<>>, 0)>>
    /\ state_ = "Escape"

(* C37: parseFragment ends for every chunk, in every state and for every    *)
(* column budget, having read each byte of the chunk once and no byte       *)
(* behind it; for an empty chunk it emits no event and leaves the state as  *)
(* it is.                                                                   *)
C37_Termination ==
    /\ ~faulted
    /\ frag.data = <<>> => (frag.events = <<>> /\ state_ = frag.from)
    /\ frag.data # <<>> =>
          /\ state_ = ParseFragmentOf(frag.from, frag.data, maxCharCount).state
          /\ frag.events = ParseFragmentOf(frag.from, frag.data, maxCharCount).events

----------------------------------------------------------------------------
(* Properties of the locator.                                               *)

(* The buttons that produce a button-down and a button-up event.            *)
PressButtons == {MouseButtonLeft, MouseButtonMiddle, MouseButtonRight}

(* Whether the kind of the event (button down / button up) is selected.     *)
EventKindSelected(pressed) ==
    IF pressed THEN reportButtonDownEvents ELSE reportButtonUpEvents

(* C6: in Enabled mode, update(button, pressed, cell, pixel) appends exactly *)
(* one report Pe;Pb;Pr;Pc;Pp to the pending reply slot if the kind of the    *)
(* event is selected and nothing otherwise; Pr;Pc are the cell position in   *)
(* cell units and the pixel position in pixel units, and Pp is 1.            *)
C6_EnabledUpdateReports ==
    [][(call'.op = "update" /\ call'.mode = "Enabled" /\ call'.button \in PressButtons)
         => _replyBuffer'[_replyBackBufferIndex'] =
               _replyBuffer[_replyBackBufferIndex] \o
                  (IF EventKindSelected(call'.pressed)
                   THEN <<createReport(makeEvent(call'.button, call'.pressed),
                                       call'.button, ReportedRow', ReportedColumn',
                                       PageOne)>>
                   ELSE <<>>)]_vars

(* C7: fetchReplyAndClear returns the reports appended since the previous   *)
(* fetch (nothing when there were none) and leaves the slot that later      *)
(* appends write to empty; peekLocatorReply shows the reports not yet       *)
(* fetched, so no report is returned again after its fetch.                 *)
C7_FetchReturnsAndClears ==
    /\ call.op = "fetchReplyAndClear"
          => /\ call.result = call.since
             /\ _replyBuffer[_replyBackBufferIndex] = <<>>
    /\ call.op = "peekLocatorReply" => call.result = call.since

(* The reports in the slot that appends write to.                           *)
BackBuffer == _replyBuffer[_replyBackBufferIndex]

(* C26: in EnabledOnce mode an update that emits no report (the kind of its *)
(* event is not selected, or there is no button) leaves the mode            *)
(* EnabledOnce, and an update whose event is selected appends exactly one   *)
(* report and sets the mode to Disabled.                                    *)
C26_EnabledOnce ==
    [][(/\ call'.op = "update"
        /\ call'.mode = "EnabledOnce"
        /\ call'.button \in PressButtons \cup {MouseButtonNone})
         => IF call'.button \in PressButtons /\ EventKindSelected(call'.pressed)
            THEN /\ Len(BackBuffer') = Len(BackBuffer) + 1
                 /\ _reportingMode' = "Disabled"
            ELSE /\ BackBuffer' = BackBuffer
                 /\ _reportingMode' = "EnabledOnce"]_vars

(* Whether the cell lies in the rectangle, borders included.                *)
InsideRectangle(cell, rect) ==
    /\ rect.top <= cell.line /\ cell.line <= rect.bottom
    /\ rect.left <= cell.column /\ cell.column <= rect.right

LocatorOutsideFilterRect == 10

(* C27: in FilterRectangular mode an update with a cell position inside the *)
(* rectangle emits nothing and keeps the mode; an update with a cell        *)
(* position outside it appends exactly one report with event code 10 and    *)
(* sets the mode to Disabled.                                               *)
C27_FilterRectangle ==
    [][(call'.op = "update" /\ call'.mode = "FilterRectangular")
         => IF InsideRectangle(call'.cell, _filterRectangle)
            THEN /\ BackBuffer' = BackBuffer
                 /\ _reportingMode' = "FilterRectangular"
            ELSE /\ Len(BackBuffer') = Len(BackBuffer) + 1
                 /\ BackBuffer'[Len(BackBuffer')].params[1] = LocatorOutsideFilterRect
                 /\ SubSeq(BackBuffer', 1, Len(BackBuffer)) = BackBuffer
                 /\ _reportingMode' = "Disabled"]_vars

(* C28: while the reporting mode is Disabled, update() with any button,     *)
(* press state and position appends nothing to either reply slot and leaves *)
(* the mode Disabled.                                                       *)
C28_DisabledUpdate ==
    [][(call'.op = "update" /\ call'.mode = "Disabled")
         => /\ _replyBuffer' = _replyBuffer
            /\ _reportingMode' = "Disabled"]_vars

C28_Witness ==
    /\ call.op = "update"
    /\ call.mode = "Disabled"
    /\ call.button = MouseButtonLeft
    /\ call.pressed
    /\ reportButtonDownEvents
    /\ call.cell = [line |-> 10, column |-> 5]
    /\ _reportingMode = "Disabled"
    /\ _replyBuffer = [i \in 0..1 |-> <<>>]

(* The event code Pe that a button event is said to have.                   *)
ButtonEventCode(button, pressed) ==
    CASE button = MouseButtonNone -> 0
      [] button = MouseButtonLeft -> IF pressed THEN 2 ELSE 3
      [] button = MouseButtonMiddle -> IF pressed THEN 4 ELSE 5
      [] button = MouseButtonRight -> IF pressed THEN 6 ELSE 7
      [] button = MouseButtonWheelDown -> 8
      [] button = MouseButtonWheelUp -> 9

(* C29: the report of a button event carries Pe = 2/3 for Left down/up,     *)
(* 4/5 for Middle, 6/7 for Right, 8 for WheelDown and 9 for WheelUp         *)
(* whatever the pressed flag, and 0 for no button; no report of a button    *)
(* event carries 1 or 10.                                                   *)
C29_EventCodes ==
    /\ call.op = "updateMousePress"
          => /\ BackBuffer # <<>>
             /\ BackBuffer[Len(BackBuffer)].params[1] =
                   ButtonEventCode(call.button, call.pressed)
    /\ \A i \in 1..Len(pending) : pending[i].params[1] \notin {1, 10}

C29_Witness ==
    /\ call.op = "updateMousePress"
    /\ call.button = MouseButtonWheelDown
    /\ ~call.pressed
    /\ BackBuffer = <<createReport(8, MouseButtonWheelDown, 10, 5, PageOne)>>

----------------------------------------------------------------------------
(* Properties of the image pool.                                            *)

(* The rasterized images that exist and were made from image i; each holds  *)
(* its fragments' and its callers' shared pointers.                         *)
LiveRastersOf(i) == {r \in RasterIds : rasters[r].image = i /\ rasters[r].use > 0}

FragmentsOf(i) == {r \in RasterIds : rasters[r].image = i /\ rasters[r].fragments > 0}

LinksTo(i) ==
    {k \in 1..Len(imageNameToImageCache_) : imageNameToImageCache_[k].image = i}

Referenced(i) == LiveRastersOf(i) # {} \/ FragmentsOf(i) # {} \/ LinksTo(i) # {}

Created(i) == i < nextImageId_

(* C30: an image is not released (its removal callback is not invoked)      *)
(* while a RasterizedImage made from it, an ImageFragment of one, or a name *)
(* link refers to it; dropping or evicting a link releases it only if no    *)
(* rasterized image or fragment refers to it, and it is released exactly    *)
(* once, when its last reference is dropped.                                *)
C30_ImageLifetime ==
    \A i \in ImageIds :
        /\ removed[i] <= 1
        /\ Referenced(i) => removed[i] = 0
        /\ Created(i) => (removed[i] = 1 <=> (~Referenced(i) /\ imageHandles[i] = 0))
        /\ ~Created(i) => removed[i] = 0

(* Image 1 has lost its callers' handles and, by eviction, its name, and    *)
(* lives on through a fragment; image 2 was released.                       *)
C30_Witness ==
    /\ imageHandles[1] = 0
    /\ rasters[1] = [image |-> 1, use |-> 1, handles |-> 0, fragments |-> 1]
    /\ LinksTo(1) = {}
    /\ removed = (1 :> 0) @@ (2 :> 1)
    /\ imageUse[1] = 1

----------------------------------------------------------------------------
(* Further properties of the locator.                                       *)

(* The pressed-buttons bitmap after the button was pressed or released.     *)
PressedAfter(buttons, button, pressed) ==
    IF pressed THEN BitOr(buttons, button) ELSE BitAndNot(buttons, button)

(* C32: after update(button, pressed, cell, pixel), in any reporting mode,  *)
(* the current cell position and the current pixel position are the         *)
(* arguments and the pressed-buttons bitmap has the bit of the button set   *)
(* if it was pressed and cleared if it was released.                        *)
C32_UpdateTracksState ==
    [][call'.op = "update"
         => /\ _cellPosition' = call'.cell
            /\ _pixelPosition' \in PixelPositions
            /\ _currentlyPressedMouseButtons' =
                  PressedAfter(_currentlyPressedMouseButtons, call'.button,
                               call'.pressed)]_vars

(* C33: the second field Pb of the report appended for a button event is    *)
(* the bitmask of the buttons pressed after the event, so that the report   *)
(* for the release of the only pressed button carries Pb = 0.               *)
C33_ReportButtonField ==
    (call.op = "updateMousePress" /\ call.button \in PressButtons)
       => /\ BackBuffer # <<>>
          /\ BackBuffer[Len(BackBuffer)].params[2] = _currentlyPressedMouseButtons

(* C39: updateMousePress appends a report only if the reporting mode is not *)
(* Disabled and the kind of the event (button down / button up) is          *)
(* selected; with the configuration of a new locator it appends nothing.    *)
C39_PressRespectsConfiguration ==
    [][(call'.op = "updateMousePress" /\ _replyBuffer' # _replyBuffer)
         => /\ call'.mode # "Disabled"
            /\ EventKindSelected(call'.pressed)]_vars

(* C40: enableLocatorReporting, enableLocatorReportingOnce and              *)
(* disableLocatorReporting leave no filter rectangle active,                *)
(* enableFilterRectangle leaves the mode FilterRectangular, and             *)
(* disableFilterRectangle changes the mode only if a filter rectangle is    *)
(* active: in Enabled or EnabledOnce mode it leaves the mode as it is.      *)
C40_FilterCancellationScoped ==
    /\ call.op \in {"enableLocatorReporting", "enableLocatorReportingOnce",
                    "disableLocatorReporting"}
          => _reportingMode # "FilterRectangular"
    /\ call.op = "enableFilterRectangle" => _reportingMode = "FilterRectangular"
    /\ (call.op = "disableFilterRectangle" /\ call.mode # "FilterRectangular")
          => _reportingMode = call.mode

----------------------------------------------------------------------------
(* Further properties of the LRU cache.                                     *)

(* C38: contains(k) returns whether k is in the cache and changes neither   *)
(* the order that keys() reports, nor head and tail, nor the key that the   *)
(* next insertion evicts (the key in the tail slot).                        *)
C38_ContainsIsPure ==
    [][lastOp'.op = "contains"
         => /\ returned'.ret = Ret("bool", Mapped(lastOp'.key))
            /\ keys' = keys
            /\ head_' = head_
            /\ tail_' = tail_
            /\ tail_ \in Slots => items_'[tail_].key = items_[tail_].key]_vars

====
